---- MODULE Spec2Model ----
(***************************************************************************)
(* Model of tmux-session-manager's spec pipeline:                          *)
(*   spec.Spec --Validate/ValidatePolicy--> templates.FromSpec -->         *)
(*   Engine.Compile --> Engine.Execute (Runner calls, sentinel handlers).  *)
(* Strings are TLA+ strings; Head/Tail/SubSeq/Len/\o act on characters.    *)
(***************************************************************************)
EXTENDS Integers, Sequences, FiniteSets, TLC

VARIABLES
    pc,        \* position: "load","policy","fromspec","compile","entry","loop","wait",
               \* "done" (Execute returned), "returned", "failed", "panic"
    specIn,    \* the spec.Spec as written in the spec file
    loaded,    \* the spec.Spec after Validate normalised it
    opt,       \* the caller's options (ApplySpecOptions / BuildOptions)
    policy,    \* Engine.Policy
    context,   \* the templates.Context handed to Compile
    tpl,       \* the templates.Spec produced by FromSpec (the IR)
    compiled,  \* templates.Compiled
    dryRun,    \* Execute's dryRun argument
    runnerNil, \* the Runner the caller supplied is nil
    idx,       \* index of the command Execute is handling (1-based)
    calls,     \* every Runner call issued so far, in order
    handled,   \* what each handled command returned, in order
    err,       \* the error the current entry point returned ("" = nil)
    lines,     \* the dry-run lines returned to the caller
    now,       \* clock of the running wait_for_prompt handler, ms since it began
    wait,      \* locals of the running wait_for_prompt handler
    environ,   \* the process environment (os.Getenv)
    flags,     \* the command line flags of main
    execs,     \* every tmux argv main ran itself (exec.Command), in order
    tui        \* the selector TUI: its model, the tmux server, the latest key

vars == <<pc, specIn, loaded, opt, policy, context, tpl, compiled, dryRun, runnerNil, idx,
          calls, handled, err, lines, now, wait, environ, flags,
          execs, tui>>

\* What Execute and its handlers never assign.
ExecFrame == <<specIn, loaded, opt, policy, context, tpl, compiled, dryRun, runnerNil,
               environ, flags, execs, tui>>

NoErr == ""

\* A local binding: the value v is computed once and named by F's parameter.
Let(v, F(_)) == F(v)

(***************************************************************************)
(* Go strings / strconv helpers, as the code uses them.                    *)
(***************************************************************************)
Char(s, i) == SubSeq(s, i, i)

IsSpace(c) == c \in {" ", "\t", "\n", "\r"}

RECURSIVE TrimLeftSpace(_)
TrimLeftSpace(s) ==
    IF s # "" /\ IsSpace(Head(s)) THEN TrimLeftSpace(Tail(s)) ELSE s

RECURSIVE TrimRightSpace(_)
TrimRightSpace(s) ==
    IF s # "" /\ IsSpace(Char(s, Len(s)))
    THEN TrimRightSpace(SubSeq(s, 1, Len(s) - 1)) ELSE s

TrimSpace(s) == TrimRightSpace(TrimLeftSpace(s))

UpperChars == "ABCDEFGHIJKLMNOPQRSTUVWXYZ"
LowerChars == "abcdefghijklmnopqrstuvwxyz"
DigitChars == "0123456789"

IsUpper(c) == \E i \in 1..Len(UpperChars) : Char(UpperChars, i) = c
IsLower(c) == \E i \in 1..Len(LowerChars) : Char(LowerChars, i) = c
IsDigit(c) == \E i \in 1..Len(DigitChars) : Char(DigitChars, i) = c

LowerChar(c) ==
    IF IsUpper(c)
    THEN Char(LowerChars, CHOOSE i \in 1..Len(UpperChars) : Char(UpperChars, i) = c)
    ELSE c

RECURSIVE ToLower(_)
ToLower(s) == IF s = "" THEN "" ELSE LowerChar(Head(s)) \o ToLower(Tail(s))

HasPrefix(s, p) == Len(s) >= Len(p) /\ SubSeq(s, 1, Len(p)) = p
HasSuffix(s, p) == Len(s) >= Len(p) /\ SubSeq(s, Len(s) - Len(p) + 1, Len(s)) = p
TrimPrefix(s, p) == IF HasPrefix(s, p) THEN SubSeq(s, Len(p) + 1, Len(s)) ELSE s
TrimSuffix(s, p) == IF HasSuffix(s, p) THEN SubSeq(s, 1, Len(s) - Len(p)) ELSE s

\* strings.Index: position (1-based) of the first occurrence of p in s, 0 if none.
Index(s, p) ==
    LET hits == {i \in 1..(Len(s) - Len(p) + 1) : SubSeq(s, i, i + Len(p) - 1) = p}
    IN  IF hits = {} THEN 0 ELSE CHOOSE i \in hits : \A j \in hits : i <= j

Contains(s, p) == Index(s, p) > 0

RECURSIVE ReplaceAll(_, _, _)
ReplaceAll(s, old, new) ==
    LET i == Index(s, old)
    IN  IF old = "" \/ i = 0 THEN s
        ELSE SubSeq(s, 1, i - 1) \o new
                 \o ReplaceAll(SubSeq(s, i + Len(old), Len(s)), old, new)

\* strings.Split(s, sep) for a one-character separator.
RECURSIVE Split(_, _)
Split(s, sep) ==
    LET i == Index(s, sep)
    IN  IF i = 0 THEN <<s>>
        ELSE <<SubSeq(s, 1, i - 1)>> \o Split(SubSeq(s, i + 1, Len(s)), sep)

\* strings.Fields: the maximal runs of non-space characters.
RECURSIVE FieldsFrom(_, _)
FieldsFrom(s, cur) ==
    IF s = "" THEN (IF cur = "" THEN <<>> ELSE <<cur>>)
    ELSE IF IsSpace(Head(s))
         THEN (IF cur = "" THEN <<>> ELSE <<cur>>) \o FieldsFrom(Tail(s), "")
         ELSE FieldsFrom(Tail(s), cur \o Head(s))

Fields(s) == FieldsFrom(s, "")

RECURSIVE TrimRightChar(_, _)
TrimRightChar(s, c) ==
    IF s # "" /\ Char(s, Len(s)) = c
    THEN TrimRightChar(SubSeq(s, 1, Len(s) - 1), c) ELSE s

RECURSIVE TrimLeftChar(_, _)
TrimLeftChar(s, c) ==
    IF s # "" /\ Head(s) = c THEN TrimLeftChar(Tail(s), c) ELSE s

DigitVal(c) == (CHOOSE i \in 1..Len(DigitChars) : Char(DigitChars, i) = c) - 1

\* fmt.Sprintf("%d", n)
RECURSIVE ItoaNat(_)
ItoaNat(n) ==
    IF n < 10 THEN Char(DigitChars, n + 1)
    ELSE ItoaNat(n \div 10) \o Char(DigitChars, (n % 10) + 1)

Itoa(n) == IF n < 0 THEN "-" \o ItoaNat(0 - n) ELSE ItoaNat(n)

AllDigits(s) == \A i \in 1..Len(s) : IsDigit(Char(s, i))

RECURSIVE DigitsVal(_, _)
DigitsVal(s, acc) ==
    IF s = "" THEN acc ELSE DigitsVal(Tail(s), acc * 10 + DigitVal(Head(s)))

\* strconv.Atoi: <<ok, n>>
Atoi(s) ==
    LET neg  == HasPrefix(s, "-")
        body == IF neg \/ HasPrefix(s, "+") THEN Tail(s) ELSE s
    IN  IF body = "" \/ ~AllDigits(body) THEN <<FALSE, 0>>
        ELSE <<TRUE, IF neg THEN 0 - DigitsVal(body, 0) ELSE DigitsVal(body, 0)>>

RECURSIVE JoinWith(_, _)
JoinWith(parts, sep) ==
    IF parts = <<>> THEN ""
    ELSE IF Len(parts) = 1 THEN parts[1]
         ELSE parts[1] \o sep \o JoinWith(Tail(parts), sep)

(***************************************************************************)
(* templates: shellQuote / shellJoin / DryRunLines                         *)
(***************************************************************************)
\* The backquote character of the source's list cannot be written in a TLA+
\* string; no input of the model contains one.
ShellSpecialChars ==
    {" ", "\t", "\n", "\"", "'", "\\", "$", "&", "|", ";", "<", ">",
     "(", ")", "{", "}", "*", "?", "!", "~", "#"}

shellQuote(s) ==
    IF s = "" THEN "''"
    ELSE IF ~(\E i \in 1..Len(s) : Char(s, i) \in ShellSpecialChars) THEN s
         ELSE "'" \o ReplaceAll(s, "'", "'\\\"'\\\"'") \o "'"

shellJoin(args) == JoinWith([i \in 1..Len(args) |-> shellQuote(args[i])], " ")

\* manager: shellQuoteSimple / shellJoin (part_002)
shellQuoteSimple(s) ==
    IF s = "" THEN "''"
    ELSE IF ~(\E i \in 1..Len(s) : Char(s, i) \in ShellSpecialChars) THEN s
         ELSE "'" \o ReplaceAll(s, "'", "'\"'\"'") \o "'"

managerShellJoin(args) ==
    JoinWith([i \in 1..Len(args) |-> shellQuoteSimple(args[i])], " ")

\* main.go: shellQuote / shellJoin
mainShellQuote(s) ==
    IF s = "" THEN "''"
    ELSE IF ~Contains(s, "'") THEN "'" \o s \o "'"
         ELSE "'" \o ReplaceAll(s, "'", "'\"'\"'") \o "'"

mainShellJoin(args) == JoinWith([i \in 1..Len(args) |-> mainShellQuote(args[i])], " ")

\* What a POSIX shell makes of a command line of words, blanks, quotes and
\* backslashes: the words after quote removal, or no words at all when a
\* quote is left open.
RECURSIVE ShellScan(_, _, _, _, _)
ShellScan(s, mode, cur, inWord, words) ==
    IF s = ""
    THEN IF mode # "plain" THEN [ok |-> FALSE, words |-> <<>>]
         ELSE [ok |-> TRUE, words |-> IF inWord THEN Append(words, cur) ELSE words]
    ELSE LET c == Head(s)
             r == Tail(s)
         IN  CASE mode = "single" ->
                      IF c = "'" THEN ShellScan(r, "plain", cur, TRUE, words)
                      ELSE ShellScan(r, "single", cur \o c, TRUE, words)
               [] mode = "double" ->
                      IF c = "\"" THEN ShellScan(r, "plain", cur, TRUE, words)
                      ELSE IF c = "\\" /\ r # "" /\ Head(r) \in {"$", "\"", "\\"}
                           THEN ShellScan(Tail(r), "double", cur \o Head(r), TRUE, words)
                      ELSE ShellScan(r, "double", cur \o c, TRUE, words)
               [] OTHER ->
                      IF c \in {" ", "\t", "\n"}
                      THEN ShellScan(r, "plain", "", FALSE,
                                     IF inWord THEN Append(words, cur) ELSE words)
                      ELSE IF c = "'" THEN ShellScan(r, "single", cur, TRUE, words)
                      ELSE IF c = "\"" THEN ShellScan(r, "double", cur, TRUE, words)
                      ELSE IF c = "\\" /\ r # ""
                           THEN ShellScan(Tail(r), "plain", cur \o Head(r), TRUE, words)
                      ELSE ShellScan(r, "plain", cur \o c, TRUE, words)

ShellWords(line) == ShellScan(line, "plain", "", FALSE, <<>>)

RECURSIVE CommandLines(_)
CommandLines(cmds) ==
    IF cmds = <<>> THEN <<>>
    ELSE LET c      == cmds[1]
             prefix == IF c.Unsafe THEN "tmux (unsafe) " ELSE "tmux "
         IN  (IF c.Explanation # "" THEN <<prefix \o "# " \o c.Explanation>> ELSE <<>>)
                 \o <<prefix \o shellJoin(c.Args)>>
                 \o CommandLines(Tail(cmds))

DryRunLines(cp) ==
    (IF cp.UnsafeUsed
     THEN <<"WARNING: unsafe actions present (shell and/or tmux passthrough)">>
     ELSE <<>>)
        \o [i \in 1..Len(cp.Warnings) |-> "WARN: " \o cp.Warnings[i]]
        \o CommandLines(cp.Commands)

(***************************************************************************)
(* templates.Engine: the executor                                          *)
(***************************************************************************)
Command(args, explanation, unsafe) ==
    [Args |-> args, Explanation |-> explanation, Unsafe |-> unsafe]

WaitSentinel == "__wait_for_prompt__"
SshSentinel  == "__ssh_manager_connect__"

\* Fault: a loop body without the two sentinel branches.
HandlerOfForwarding(c) == "run"

\* Which branch of Execute's loop body takes the command.
HandlerOf(c) ==
    IF Len(c.Args) > 0 /\ c.Args[1] = WaitSentinel THEN "wait"
    ELSE IF Len(c.Args) > 0 /\ c.Args[1] = SshSentinel THEN "ssh"
    ELSE "run"

\* os.Getenv on the process environment; ProcessEnv is the environment of a
\* shell outside tmux.
ProcessEnv == [k \in {"HOME", "EDITOR"} |-> IF k = "HOME" THEN "/home/u" ELSE "vi"]
Getenv(k) == IF k \in DOMAIN environ THEN environ[k] ELSE ""

\* TmuxExecRunner: the argv it runs tmux with for the args a caller hands it.
argsContainSocketOrServerOverride(args) ==
    \E i \in 1..Len(args) : args[i] \in {"-S", "-L"}

parseTmuxSockPathFromEnv(tmuxEnv) ==
    LET t == TrimSpace(tmuxEnv)
    IN  IF t = "" THEN ""
        ELSE IF Index(t, ",") > 0 THEN TrimSpace(SubSeq(t, 1, Index(t, ",") - 1))
        ELSE t

\* Fault: a Runner that forces the socket on every argv.
TmuxExecArgsAlways(args) ==
    LET sock == parseTmuxSockPathFromEnv(TrimSpace(Getenv("TMUX")))
    IN  IF sock # "" THEN <<"-S", sock>> \o args ELSE args

TmuxExecArgs(args) ==
    LET tmuxEnv == TrimSpace(Getenv("TMUX"))
        sock    == parseTmuxSockPathFromEnv(tmuxEnv)
    IN  IF tmuxEnv # "" /\ ~argsContainSocketOrServerOverride(args) /\ sock # ""
        THEN <<"-S", sock>> \o args
        ELSE args

\* A Runner call as the Runner records it.
RunnerCall(method, args) ==
    [cmd |-> idx, method |-> method, args |-> args, exec |-> TmuxExecArgs(args)]

\* What a Runner may answer.
RunErrors  == {"tmux runner: exit status 1"}
RunResults == {NoErr} \cup RunErrors

\* Pane contents a capture may return, before normalisation.
CaptureOutputs == {"banner\n$ ", "banner\n$ \n# ", "loading...\r\n", ""}
CaptureResults ==
    {[out |-> o, err |-> NoErr] : o \in CaptureOutputs}
        \cup {[out |-> "", err |-> e] : e \in RunErrors}

\* Time a capture-pane call may take, in ms.
CaptureDelayMS == 50
CaptureDelays  == {0, CaptureDelayMS}

DefaultTimeoutMS  == 15000
DefaultMinQuietMS == 500
DefaultSettleMS   == 250
DefaultMaxLines   == 200
PollEveryMS       == 100
DefaultPromptRe   == "(?m)(^.*[#>$] ?$)"

\* The regular expressions the model knows: the default prompt pattern and
\* patterns without metacharacters (matched as substrings); any other pattern
\* of the model's inputs is one regexp.Compile rejects.
RegexMetaChars == {"(", ")", "[", "]", "{", "}", "*", "+", "?", "|", "^", "$", ".", "\\"}
RegexCompiles(re) ==
    re = DefaultPromptRe \/ ~(\E i \in 1..Len(re) : Char(re, i) \in RegexMetaChars)

MatchString(re, line) ==
    IF re = DefaultPromptRe
    THEN \E t \in {"#", ">", "$"} : HasSuffix(line, t) \/ HasSuffix(line, t \o " ")
    ELSE Contains(line, re)

\* parseInt of execWaitForPrompt
parseInt(s, def) ==
    LET t == TrimSpace(s)
    IN  IF t = "" THEN def ELSE IF Atoi(t)[1] THEN Atoi(t)[2] ELSE def

WaitPromptRe(c) ==
    LET given == IF Len(c.Args) >= 7 THEN TrimSpace(c.Args[7]) ELSE ""
    IN  IF given = "" THEN DefaultPromptRe ELSE given

\* The error execWaitForPrompt returns before it polls, NoErr if none.
WaitArgsError(c) ==
    IF Len(c.Args) < 6 THEN "wait_for_prompt: invalid sentinel args"
    ELSE IF TrimSpace(c.Args[2]) = "" THEN "wait_for_prompt: empty target"
    ELSE IF ~RegexCompiles(WaitPromptRe(c)) THEN "wait_for_prompt: invalid prompt_regex"
    ELSE NoErr

\* Fault: a deadline one poll interval early.
WaitLocalsEarlyDeadline(c) ==
    LET timeoutMS  == parseInt(c.Args[3], DefaultTimeoutMS)
        minQuietMS == parseInt(c.Args[4], DefaultMinQuietMS)
        settleMS   == parseInt(c.Args[5], DefaultSettleMS)
        maxLines   == parseInt(c.Args[6], DefaultMaxLines)
        timeout    == IF timeoutMS <= 0 THEN DefaultTimeoutMS ELSE timeoutMS
    IN  [target     |-> TrimSpace(c.Args[2]),
         timeoutMS  |-> timeout,
         minQuietMS |-> IF minQuietMS < 0 THEN 0 ELSE minQuietMS,
         settleMS   |-> IF settleMS < 0 THEN 0 ELSE settleMS,
         maxLines   |-> IF maxLines <= 0 THEN DefaultMaxLines ELSE maxLines,
         promptRe   |-> WaitPromptRe(c),
         deadline   |-> timeout - PollEveryMS,
         lastSnap   |-> "",
         lastChange |-> 0]

\* The handler's locals when its polling loop starts (clock at 0).
WaitLocals(c) ==
    LET timeoutMS  == parseInt(c.Args[3], DefaultTimeoutMS)
        minQuietMS == parseInt(c.Args[4], DefaultMinQuietMS)
        settleMS   == parseInt(c.Args[5], DefaultSettleMS)
        maxLines   == parseInt(c.Args[6], DefaultMaxLines)
        timeout    == IF timeoutMS <= 0 THEN DefaultTimeoutMS ELSE timeoutMS
    IN  [target     |-> TrimSpace(c.Args[2]),
         timeoutMS  |-> timeout,
         minQuietMS |-> IF minQuietMS < 0 THEN 0 ELSE minQuietMS,
         settleMS   |-> IF settleMS < 0 THEN 0 ELSE settleMS,
         maxLines   |-> IF maxLines <= 0 THEN DefaultMaxLines ELSE maxLines,
         promptRe   |-> WaitPromptRe(c),
         deadline   |-> timeout,
         lastSnap   |-> "",
         lastChange |-> 0]

WaitIdle ==
    [target |-> "", timeoutMS |-> 0, minQuietMS |-> 0, settleMS |-> 0, maxLines |-> 0,
     promptRe |-> "", deadline |-> 0, lastSnap |-> "", lastChange |-> 0]

\* capture(): the argv it hands to RunOutput, and what it makes of the output.
CaptureArgs(w) ==
    <<"capture-pane", "-p", "-t", w.target, "-S", "-" \o Itoa(w.maxLines)>>

NormalizeCapture(out) ==
    TrimRightChar(ReplaceAll(ReplaceAll(out, "\r\n", "\n"), "\r", "\n"), "\n")

RECURSIVE LastNonEmptyOf(_)
LastNonEmptyOf(ls) ==
    IF ls = <<>> THEN ""
    ELSE IF TrimSpace(ls[Len(ls)]) # "" THEN TrimSpace(ls[Len(ls)])
         ELSE LastNonEmptyOf(SubSeq(ls, 1, Len(ls) - 1))

lastNonEmptyLine(s) == LastNonEmptyOf(Split(s, "\n"))

\* The error execSshManagerConnect returns before it calls the Runner.
SshLoginMode(c) ==
    LET m == TrimSpace(ToLower(c.Args[6])) IN IF m = "" THEN "askpass" ELSE m

\* Fault: a handler that takes any login mode.
SshArgsErrorAnyMode(c) ==
    IF Len(c.Args) < 7 THEN "ssh_manager_connect: invalid sentinel args"
    ELSE IF TrimSpace(c.Args[2]) = "" THEN "ssh_manager_connect: empty target"
    ELSE IF TrimSpace(c.Args[3]) = "" THEN "ssh_manager_connect: empty host"
    ELSE NoErr

SshArgsError(c) ==
    IF Len(c.Args) < 7 THEN "ssh_manager_connect: invalid sentinel args"
    ELSE IF TrimSpace(c.Args[2]) = "" THEN "ssh_manager_connect: empty target"
    ELSE IF TrimSpace(c.Args[3]) = "" THEN "ssh_manager_connect: empty host"
    ELSE IF SshLoginMode(c) \notin {"askpass", "manual", "key"}
         THEN "ssh_manager_connect: unsupported login_mode"
    ELSE NoErr

\* Fault: an askpass line that passes the port on, and an ssh line that
\* always names one.
SshLineWithPort(c) ==
    LET host == TrimSpace(c.Args[3])
        user == TrimSpace(c.Args[4])
        ps   == TrimSpace(c.Args[5])
        port == IF ps # "" /\ Atoi(ps)[1] THEN Atoi(ps)[2] ELSE 0
    IN  IF SshLoginMode(c) = "askpass"
        THEN shellJoin(<<"tmux-ssh-manager", "__connect", "--host", host>>
                           \o (IF user # "" THEN <<"--user", user>> ELSE <<>>)
                           \o (IF port > 0 THEN <<"--port", Itoa(port)>> ELSE <<>>))
        ELSE shellJoin(<<"ssh", "-p", Itoa(port)>>
                           \o <<IF user # "" THEN user \o "@" \o host ELSE host>>)

\* The command line execSshManagerConnect types into the pane.
SshLine(c) ==
    LET host == TrimSpace(c.Args[3])
        user == TrimSpace(c.Args[4])
        ps   == TrimSpace(c.Args[5])
        port == IF ps # "" /\ Atoi(ps)[1] THEN Atoi(ps)[2] ELSE 0
    IN  IF SshLoginMode(c) = "askpass"
        THEN shellJoin(<<"tmux-ssh-manager", "__connect", "--host", host>>
                           \o (IF user # "" THEN <<"--user", user>> ELSE <<>>))
        ELSE shellJoin(<<"ssh">>
                           \o (IF port > 0 THEN <<"-p", Itoa(port)>> ELSE <<>>)
                           \o <<IF user # "" THEN user \o "@" \o host ELSE host>>)

SshRunArgs(c) == <<"send-keys", "-t", TrimSpace(c.Args[2]), SshLine(c), "C-m">>

\* Fault: a loop that logs the error of a command and goes on (best effort).
AfterCommandBestEffort(e) ==
    /\ handled' = Append(handled, [cmd |-> idx, err |-> e])
    /\ pc' = "loop" /\ err' = err /\ idx' = idx + 1

\* Execute's loop after the current command returned e: abort or go on.
AfterCommand(e) ==
    /\ handled' = Append(handled, [cmd |-> idx, err |-> e])
    /\ IF e # NoErr
       THEN pc' = "done" /\ err' = e /\ idx' = idx
       ELSE pc' = "loop" /\ err' = err /\ idx' = idx + 1

\* Fault: a loop that walks the commands from the last to the first.
CommandFromEnd == compiled.Commands[Len(compiled.Commands) + 1 - idx]

CurrentCommand == compiled.Commands[idx]
InLoop == pc = "loop" /\ idx <= Len(compiled.Commands)

\* Fault: an Execute that computes the lines only on the dry-run path.
ExecuteEntryLinesOnDryRun ==
    /\ pc = "entry"
    /\ lines' = IF dryRun THEN DryRunLines(compiled) ELSE <<>>
    /\ IF dryRun THEN pc' = "done" /\ err' = NoErr /\ idx' = idx
       ELSE IF runnerNil THEN pc' = "done" /\ err' = "engine: Runner is nil" /\ idx' = idx
       ELSE pc' = "loop" /\ err' = NoErr /\ idx' = 1
    /\ UNCHANGED <<ExecFrame, calls, handled, now, wait>>

ExecuteEntry ==
    /\ pc = "entry"
    /\ lines' = DryRunLines(compiled)
    /\ IF dryRun THEN pc' = "done" /\ err' = NoErr /\ idx' = idx
       ELSE IF runnerNil THEN pc' = "done" /\ err' = "engine: Runner is nil" /\ idx' = idx
       ELSE pc' = "loop" /\ err' = NoErr /\ idx' = 1
    /\ UNCHANGED <<ExecFrame, calls, handled, now, wait>>

ExecuteRun ==
    /\ InLoop
    /\ HandlerOf(CurrentCommand) = "run"
    /\ \E r \in RunResults :
          /\ calls' = Append(calls, RunnerCall("Run", CurrentCommand.Args))
          /\ AfterCommand(r)
    /\ UNCHANGED <<ExecFrame, lines, now, wait>>

ExecSshManagerConnect ==
    /\ InLoop
    /\ HandlerOf(CurrentCommand) = "ssh"
    /\ IF SshArgsError(CurrentCommand) # NoErr
       THEN AfterCommand(SshArgsError(CurrentCommand)) /\ calls' = calls
       ELSE \E r \in RunResults :
               /\ calls' = Append(calls, RunnerCall("Run", SshRunArgs(CurrentCommand)))
               /\ AfterCommand(r)
    /\ UNCHANGED <<ExecFrame, lines, now, wait>>

ExecWaitForPrompt ==
    /\ InLoop
    /\ HandlerOf(CurrentCommand) = "wait"
    /\ IF WaitArgsError(CurrentCommand) # NoErr
       THEN AfterCommand(WaitArgsError(CurrentCommand)) /\ wait' = wait
       ELSE /\ pc' = "wait"
            /\ wait' = WaitLocals(CurrentCommand)
            /\ UNCHANGED <<idx, err, handled>>
    /\ now' = 0
    /\ UNCHANGED <<ExecFrame, lines, calls>>

\* Fault: a deadline that ends the gate as if the pane were ready.
WaitTimeoutReportsReady ==
    /\ pc = "wait"
    /\ ~(now < wait.deadline)
    /\ AfterCommand(NoErr)
    /\ UNCHANGED <<ExecFrame, lines, calls, now, wait>>

\* One evaluation of the polling loop's condition that finds the deadline passed.
WaitTimeout ==
    /\ pc = "wait"
    /\ ~(now < wait.deadline)
    /\ AfterCommand("wait_for_prompt: timed out after " \o Itoa(wait.timeoutMS)
                        \o "ms waiting for readiness in " \o wait.target)
    /\ UNCHANGED <<ExecFrame, lines, calls, now, wait>>

\* A capture-pane call as the Runner records it: when it returned (ms since the
\* handler started), whether it failed, and the snapshot capture() made of it.
CaptureCall(args, at, failed, snap) ==
    [cmd |-> idx, method |-> "RunOutput", args |-> args, exec |-> TmuxExecArgs(args),
     at |-> at, failed |-> failed, snap |-> snap]

\* Fault: a readiness test that does not wait for the pane to be quiet.
WaitReadyAtOnce(w, quiet, line) == line # "" /\ MatchString(w.promptRe, line)

\* The tests of one iteration after a capture: quiet long enough, a last
\* non-empty line, and that line matching the prompt pattern.
WaitReady(w, quiet, line) ==
    ~(quiet < w.minQuietMS) /\ line # "" /\ MatchString(w.promptRe, line)

\* Fault: a capture failure that ends the gate with the Runner's error.
CaptureFailedAborts(t1, e) ==
    /\ now' = t1 /\ wait' = wait /\ AfterCommand(e)

\* The iteration of a capture that failed with e at t1: sleep, then poll again.
CaptureFailed(t1, e) ==
    /\ now' = t1 + PollEveryMS /\ UNCHANGED <<wait, pc, idx, err, handled>>

\* One iteration of the polling loop: a capture that takes d ms and answers r.
WaitPoll ==
    /\ pc = "wait"
    /\ now < wait.deadline
    /\ \E r \in CaptureResults, d \in CaptureDelays :
          LET t1      == now + d
              snap    == NormalizeCapture(r.out)
              changed == snap # wait.lastSnap
              w1      == IF changed
                         THEN [wait EXCEPT !.lastSnap = snap, !.lastChange = t1]
                         ELSE wait
              quiet   == t1 - w1.lastChange
              line    == lastNonEmptyLine(snap)
          IN  IF r.err # NoErr
              THEN /\ calls' = Append(calls, CaptureCall(CaptureArgs(wait), t1, TRUE, ""))
                   /\ CaptureFailed(t1, r.err)
              ELSE /\ calls' = Append(calls, CaptureCall(CaptureArgs(wait), t1, FALSE, snap))
                   /\ IF ~WaitReady(w1, quiet, line)
                      THEN now' = t1 + PollEveryMS /\ wait' = w1
                               /\ UNCHANGED <<pc, idx, err, handled>>
                      ELSE now' = t1 + w1.settleMS /\ wait' = w1 /\ AfterCommand(NoErr)
    /\ UNCHANGED <<ExecFrame, lines>>

ExecuteReturn ==
    /\ pc = "loop"
    /\ idx > Len(compiled.Commands)
    /\ pc' = "done"
    /\ UNCHANGED <<ExecFrame, idx, calls, handled, err, lines, now, wait>>

(***************************************************************************)
(* package spec: data model, Validate, ValidatePolicy                      *)
(* A Go pointer is a sequence of length 0 (nil) or 1.                      *)
(***************************************************************************)
Nil == <<>>
Some(x) == <<x>>

\* The first error of a list of check results, in order (NoErr if none).
FirstErr(es) ==
    IF \E i \in 1..Len(es) : es[i] # NoErr
    THEN es[CHOOSE i \in 1..Len(es) : es[i] # NoErr /\ \A j \in 1..(i - 1) : es[j] = NoErr]
    ELSE NoErr

CurrentVersion == 1

IsNameChar(c) == IsLower(c) \/ IsUpper(c) \/ IsDigit(c) \/ c = "_" \/ c = "-"

ValidateTmuxName(name) ==
    LET n == TrimSpace(name)
    IN  IF n = "" THEN "empty name"
        ELSE IF ~(\A i \in 1..Len(n) : IsNameChar(Char(n, i))) THEN "invalid name"
        ELSE NoErr

\* The login mode validateAction stores: trimmed, lower-cased, askpass when empty.
SshLoginDefault(mode) ==
    Let(TrimSpace(ToLower(mode)), LAMBDA m : IF m = "" THEN "askpass" ELSE m)

\* validateAction: the action as it leaves the function when no error is returned.
NormalizeAction(a) ==
    Let(TrimSpace(ToLower(a.Type)), LAMBDA ty :
        CASE ty = "tmux" /\ a.Tmux # Nil ->
                 [a EXCEPT !.Type = ty,
                           !.Tmux = Some([a.Tmux[1] EXCEPT !.Name = TrimSpace(@)])]
          [] ty = "run" /\ a.Run # Nil ->
                 [a EXCEPT !.Type = ty,
                           !.Run = Some([a.Run[1] EXCEPT !.Program = TrimSpace(@)])]
          [] ty = "shell" /\ a.Shell # Nil ->
                 [a EXCEPT !.Type = ty,
                           !.Shell = Some([a.Shell[1] EXCEPT !.Cmd = TrimSpace(@)])]
          [] ty = "watch" /\ a.Watch # Nil ->
                 [a EXCEPT !.Type = ty,
                           !.Watch = Some([a.Watch[1] EXCEPT !.Command = TrimSpace(@)])]
          [] ty = "wait_for_prompt" /\ a.WaitForPrompt # Nil ->
                 [a EXCEPT !.Type = ty,
                           !.WaitForPrompt =
                               Some([a.WaitForPrompt[1] EXCEPT !.PromptRegex = TrimSpace(@)])]
          [] ty = "ssh_manager_connect" /\ a.SshManagerConnect # Nil ->
                 [a EXCEPT !.Type = ty,
                           !.SshManagerConnect =
                               Some([a.SshManagerConnect[1] EXCEPT
                                        !.Host = TrimSpace(@),
                                        !.User = TrimSpace(@),
                                        !.LoginMode = SshLoginDefault(@)])]
          [] OTHER -> [a EXCEPT !.Type = ty])

\* validateAction: the error it returns.
validateAction(a) ==
    Let(TrimSpace(ToLower(a.Type)), LAMBDA ty :
        CASE ty = "" -> "missing type"
          [] ty = "tmux" ->
                 IF a.Tmux = Nil THEN "tmux action missing tmux{}"
                 ELSE IF TrimSpace(a.Tmux[1].Name) = "" THEN "tmux.name is required"
                 ELSE NoErr
          [] ty = "run" ->
                 IF a.Run = Nil THEN "run action missing run{}"
                 ELSE IF TrimSpace(a.Run[1].Program) = "" THEN "run.program is required"
                 ELSE NoErr
          [] ty = "send_keys" ->
                 IF a.SendKeys = Nil THEN "send_keys action missing send_keys{}"
                 ELSE IF Len(a.SendKeys[1].Keys) = 0 THEN "send_keys.keys is required"
                 ELSE NoErr
          [] ty = "shell" ->
                 IF a.Shell = Nil THEN "shell action missing shell{}"
                 ELSE IF TrimSpace(a.Shell[1].Cmd) = "" THEN "shell.cmd is required"
                 ELSE NoErr
          [] ty = "sleep" ->
                 IF a.Sleep = Nil THEN "sleep action missing sleep{}"
                 ELSE IF a.Sleep[1].Milliseconds < 0 THEN "sleep.ms must be >= 0" ELSE NoErr
          [] ty = "watch" ->
                 IF a.Watch = Nil THEN "watch action missing watch{}"
                 ELSE IF a.Watch[1].IntervalSeconds < 0 THEN "watch.interval_s must be >= 0"
                 ELSE IF TrimSpace(a.Watch[1].Command) = "" THEN "watch.command is required"
                 ELSE NoErr
          [] ty = "wait_for_prompt" ->
                 IF a.WaitForPrompt = Nil THEN "wait_for_prompt action missing wait_for_prompt{}"
                 ELSE IF a.WaitForPrompt[1].TimeoutMS < 0
                      THEN "wait_for_prompt.timeout_ms must be >= 0"
                 ELSE IF a.WaitForPrompt[1].MinQuietMS < 0
                      THEN "wait_for_prompt.min_quiet_ms must be >= 0"
                 ELSE IF a.WaitForPrompt[1].SettleMS < 0
                      THEN "wait_for_prompt.settle_ms must be >= 0"
                 ELSE IF a.WaitForPrompt[1].MaxLines < 0
                      THEN "wait_for_prompt.max_lines must be >= 0"
                 ELSE NoErr
          [] ty = "ssh_manager_connect" ->
                 IF a.SshManagerConnect = Nil
                 THEN "ssh_manager_connect action missing ssh_manager_connect{}"
                 ELSE IF TrimSpace(a.SshManagerConnect[1].Host) = ""
                      THEN "ssh_manager_connect.host is required"
                 ELSE IF a.SshManagerConnect[1].Port < 0
                      THEN "ssh_manager_connect.port must be >= 0"
                 ELSE IF SshLoginDefault(a.SshManagerConnect[1].LoginMode)
                             \notin {"askpass", "manual", "key"}
                      THEN "ssh_manager_connect.login_mode must be askpass|manual|key"
                 ELSE IF a.SshManagerConnect[1].ConnectTimeoutMS < 0
                      THEN "ssh_manager_connect.connect_timeout_ms must be >= 0"
                 ELSE NoErr
          [] OTHER -> "unknown action type")

ActionsErr(as) == FirstErr([i \in 1..Len(as) |-> validateAction(as[i])])
NormalizeActions(as) == [i \in 1..Len(as) |-> NormalizeAction(as[i])]

validatePanePlanStep(steps, i) ==
    IF (steps[i].Pane # Nil) = (steps[i].Split # Nil)
    THEN "step[" \o Itoa(i - 1) \o "] must have exactly one of pane or split"
    ELSE IF steps[i].Split # Nil
              /\ ToLower(TrimSpace(steps[i].Split[1].Direction)) \notin {"h", "v"}
         THEN "step[" \o Itoa(i - 1) \o "].split.direction must be 'h' or 'v'"
    ELSE NoErr

\* Fault: a validator without the test for a trailing split.
validatePanePlanOpenEnded(steps) ==
    IF Len(steps) = 0 THEN NoErr
    ELSE IF steps[1].Pane = Nil \/ steps[1].Split # Nil THEN "first step must be pane"
    ELSE FirstErr([i \in 1..Len(steps) |-> validatePanePlanStep(steps, i)])

\* Fault: a validator that lets a plan begin with a split.
validatePanePlanAnyFirst(steps) ==
    IF Len(steps) = 0 THEN NoErr
    ELSE FirstErr([i \in 1..Len(steps) |-> validatePanePlanStep(steps, i)]
                      \o <<IF steps[Len(steps)].Split # Nil
                           THEN "last step must be pane (cannot end with split)"
                           ELSE NoErr>>)

validatePanePlan(steps) ==
    IF Len(steps) = 0 THEN NoErr
    ELSE IF steps[1].Pane = Nil \/ steps[1].Split # Nil THEN "first step must be pane"
    ELSE FirstErr([i \in 1..Len(steps) |-> validatePanePlanStep(steps, i)]
                      \o <<IF steps[Len(steps)].Split # Nil
                           THEN "last step must be pane (cannot end with split)"
                           ELSE NoErr>>)

\* Fault: a shorthand that adds its shell action to the actions a pane has.
ShorthandActionsAdded(p) ==
    IF p.Command # ""
    THEN p.Actions \o
         <<[Type |-> "shell", Target |-> [Session |-> "", Window |-> "", Pane |-> ""],
            Tmux |-> Nil, Run |-> Nil, SendKeys |-> Nil,
            Shell |-> Some([Cmd |-> p.Command, Shell |-> ""]),
            Sleep |-> Nil, Watch |-> Nil, WaitForPrompt |-> Nil,
            SshManagerConnect |-> Nil, IgnoreError |-> FALSE]>>
    ELSE p.Actions

\* The `command` shorthand of a pane (legacy or pane_plan): its actions afterwards.
ShorthandActions(p) ==
    IF p.Command # "" /\ Len(p.Actions) = 0
    THEN <<[Type |-> "shell", Target |-> [Session |-> "", Window |-> "", Pane |-> ""],
            Tmux |-> Nil, Run |-> Nil, SendKeys |-> Nil,
            Shell |-> Some([Cmd |-> p.Command, Shell |-> ""]),
            Sleep |-> Nil, Watch |-> Nil, WaitForPrompt |-> Nil,
            SshManagerConnect |-> Nil, IgnoreError |-> FALSE]>>
    ELSE p.Actions

NormalizePane(p) == [p EXCEPT !.Actions = NormalizeActions(ShorthandActions(p))]

FocusPaneErr(w) ==
    LET fp == TrimSpace(ToLower(w.FocusPane))
    IN  IF fp # "" /\ fp # "active" /\ ~AllDigits(fp)
        THEN "focus_pane must be \"active\" or a numeric string" ELSE NoErr

WindowErr(w) ==
    FirstErr(
        <<IF TrimSpace(w.Name) = "" THEN "windows[].name is required" ELSE NoErr,
          FocusPaneErr(w),
          IF Len(w.PanePlan) > 0 THEN validatePanePlan(w.PanePlan) ELSE NoErr>>
        \o [si \in 1..Len(w.PanePlan) |->
               IF w.PanePlan[si].Pane = Nil THEN NoErr
               ELSE ActionsErr(ShorthandActions(w.PanePlan[si].Pane[1]))]
        \o [j \in 1..Len(w.Panes) |-> ActionsErr(ShorthandActions(w.Panes[j]))]
        \o <<ActionsErr(w.Actions)>>)

NormalizeWindow(w) ==
    [w EXCEPT !.FocusPane = TrimSpace(ToLower(@)),
              !.PanePlan  = [si \in 1..Len(w.PanePlan) |->
                                IF w.PanePlan[si].Pane = Nil THEN w.PanePlan[si]
                                ELSE [w.PanePlan[si] EXCEPT
                                         !.Pane = Some(NormalizePane(w.PanePlan[si].Pane[1]))]],
              !.Panes     = [j \in 1..Len(w.Panes) |-> NormalizePane(w.Panes[j])],
              !.Actions   = NormalizeActions(w.Actions)]

FocusWindowErr(s) ==
    LET fw == TrimSpace(s.Session.FocusWindow)
    IN  IF fw = "" \/ ToLower(fw) = "active" \/ AllDigits(fw) THEN NoErr
        ELSE IF ValidateTmuxName(fw) # NoErr THEN "session.focus_window: invalid name"
        ELSE NoErr

\* Spec.Validate: the error it returns.
Validate(s) ==
    LET v == IF s.Version = 0 THEN CurrentVersion ELSE s.Version
    IN  IF v # CurrentVersion THEN "unsupported spec version"
        ELSE IF Len(s.Actions) = 0 /\ Len(s.Windows) = 0
             THEN "spec must define either windows[] or actions[]"
        ELSE FirstErr(
                 [i \in 1..Len(s.Windows) |-> WindowErr(s.Windows[i])]
                 \o <<ActionsErr(s.Actions),
                      IF s.Session.Name # "" /\ ValidateTmuxName(s.Session.Name) # NoErr
                      THEN "session.name: invalid name" ELSE NoErr,
                      FocusWindowErr(s)>>)

\* Spec.Validate: the spec as it stands after a successful call.
Normalize(s) ==
    [s EXCEPT !.Version = IF @ = 0 THEN CurrentVersion ELSE @,
              !.Windows = [i \in 1..Len(s.Windows) |-> NormalizeWindow(s.Windows[i])],
              !.Actions = NormalizeActions(s.Actions),
              !.Session = [@ EXCEPT !.FocusWindow =
                              IF ToLower(TrimSpace(@)) = "active" THEN "active"
                              ELSE TrimSpace(@)]]

\* spec.DefaultPolicy().AllowedTmuxCommands
SpecDefaultAllowed ==
    {"new-session", "new-window", "split-window", "rename-window", "rename-session",
     "select-layout", "select-window", "select-pane", "kill-window", "kill-pane",
     "kill-session", "send-keys", "set-option", "set-window-option", "list-windows",
     "list-panes", "display-message"}

\* Fault: the closure with the AllowShell test negated.
PolicyCheckInverted(pol, a) ==
    IF a.Type = "shell" /\ pol.AllowShell THEN "shell actions are disabled by policy"
    ELSE NoErr

\* The closure `check` of ValidatePolicy. pol.AllowedTmuxCommands is a pointer
\* to a set (nil map = Nil).
PolicyCheck(pol, a) ==
    LET allowed == IF pol.AllowedTmuxCommands = Nil THEN SpecDefaultAllowed
                   ELSE pol.AllowedTmuxCommands[1]
    IN  CASE a.Type = "shell" ->
                 IF ~pol.AllowShell THEN "shell actions are disabled by policy" ELSE NoErr
          [] a.Type = "tmux" ->
                 IF a.Tmux = Nil THEN "tmux action missing tmux{}"
                 ELSE IF TrimSpace(a.Tmux[1].Name) = "" THEN "tmux.name is required"
                 ELSE IF ~pol.AllowTmuxPassthrough /\ TrimSpace(a.Tmux[1].Name) \notin allowed
                      THEN "tmux command not allowed by policy"
                 ELSE NoErr
          [] OTHER -> NoErr

PolicyActionsErr(pol, as) == FirstErr([i \in 1..Len(as) |-> PolicyCheck(pol, as[i])])

ValidatePolicy(s, pol) ==
    FirstErr(
        <<PolicyActionsErr(pol, s.Actions)>>
        \o [i \in 1..Len(s.Windows) |->
               FirstErr(<<PolicyActionsErr(pol, s.Windows[i].Actions)>>
                        \o [j \in 1..Len(s.Windows[i].Panes) |->
                               PolicyActionsErr(pol, s.Windows[i].Panes[j].Actions)])])

(***************************************************************************)
(* package templates: substitution and names                               *)
(***************************************************************************)
\* The process environment (os.Getenv, os.UserHomeDir) the program runs in.

IsIdentStart(c) == IsLower(c) \/ IsUpper(c) \/ c = "_"
IsIdentChar(c)  == IsIdentStart(c) \/ IsDigit(c)

RECURSIVE IdentPrefixLen(_)
IdentPrefixLen(s) ==
    IF s # "" /\ IsIdentChar(Head(s)) THEN 1 + IdentPrefixLen(Tail(s)) ELSE 0

NoVarMatch == [ok |-> FALSE, key |-> "", def |-> "", len |-> 0]

\* reVar anchored at the start of s: ${NAME} or ${NAME:-default}, the default
\* running lazily to the first closing brace and holding no newline.
VarMatch(s) ==
    IF ~HasPrefix(s, "${") \/ Len(s) < 3 \/ ~IsIdentStart(Char(s, 3)) THEN NoVarMatch
    ELSE Let(IdentPrefixLen(SubSeq(s, 3, Len(s))), LAMBDA n :
         Let(SubSeq(s, n + 3, Len(s)), LAMBDA after :
             IF HasPrefix(after, "}")
             THEN [ok |-> TRUE, key |-> SubSeq(s, 3, n + 2), def |-> "", len |-> n + 3]
             ELSE IF ~HasPrefix(after, ":-") THEN NoVarMatch
             ELSE Let(SubSeq(after, 3, Len(after)), LAMBDA tail :
                  Let(Index(tail, "}"), LAMBDA j :
                      IF j > 0 /\ ~Contains(SubSeq(tail, 1, j - 1), "\n")
                      THEN [ok |-> TRUE, key |-> SubSeq(s, 3, n + 2),
                            def |-> SubSeq(tail, 1, j - 1), len |-> n + 4 + j]
                      ELSE NoVarMatch))))

\* Fault: a lookup that asks the process environment before the spec's env.
SubstLookupProcessFirst(ctx, key, def) ==
    LET builtin == CASE key = "PROJECT_NAME" -> ctx.ProjectName
                     [] key = "PROJECT_PATH" -> ctx.ProjectPath
                     [] key = "SESSION_NAME" -> ctx.SessionName
                     [] key = "TMUX_SOCK"    -> ctx.TmuxSocket
                     [] OTHER                -> ""
    IN  IF builtin # "" THEN builtin
        ELSE IF Getenv(key) # "" THEN Getenv(key)
        ELSE IF key \in DOMAIN ctx.Env /\ ctx.Env[key] # "" THEN ctx.Env[key]
        ELSE def

\* The lookup closure of subst.
SubstLookup(ctx, key, def) ==
    LET builtin == CASE key = "PROJECT_NAME" -> ctx.ProjectName
                     [] key = "PROJECT_PATH" -> ctx.ProjectPath
                     [] key = "SESSION_NAME" -> ctx.SessionName
                     [] key = "TMUX_SOCK"    -> ctx.TmuxSocket
                     [] OTHER                -> ""
    IN  IF builtin # "" THEN builtin
        ELSE IF key \in DOMAIN ctx.Env /\ ctx.Env[key] # "" THEN ctx.Env[key]
        ELSE IF Getenv(key) # "" THEN Getenv(key)
        ELSE def

RECURSIVE expandVars(_, _)
expandVars(ctx, s) ==
    IF s = "" THEN ""
    ELSE Let(VarMatch(s), LAMBDA m :
             IF m.ok
             THEN SubstLookup(ctx, m.key, m.def)
                      \o expandVars(ctx, SubSeq(s, m.len + 1, Len(s)))
             ELSE Head(s) \o expandVars(ctx, Tail(s)))

subst(ctx, s) == expandVars(ctx, s)

\* expandUser: a leading ~ or ~/ becomes the home directory. The model's paths
\* are already clean, so filepath.Join only puts the separator in.
expandUser(path) ==
    LET p    == TrimSpace(path)
        home == Getenv("HOME")
    IN  IF (p = "~" \/ HasPrefix(p, "~/")) /\ home # ""
        THEN (IF p = "~" \/ p = "~/" THEN home ELSE home \o "/" \o SubSeq(p, 3, Len(p)))
        ELSE p

\* filepath.Base of a clean path.
RECURSIVE LastElem(_)
LastElem(p) ==
    IF Index(p, "/") = 0 THEN p ELSE LastElem(SubSeq(p, Index(p, "/") + 1, Len(p)))

Base(path) ==
    IF path = "" THEN "."
    ELSE LET p == TrimRightChar(path, "/") IN IF p = "" THEN "/" ELSE LastElem(p)

\* filepath.Abs of a clean path; relative paths hang off the working directory.
Abs(p) == IF HasPrefix(p, "/") THEN p ELSE "/cwd/" \o p

\* templates.sanitizeSessionName
RECURSIVE SanitizeRunes(_, _)
SanitizeRunes(s, lastUnderscore) ==
    IF s = "" THEN ""
    ELSE LET c == Head(s)
         IN  IF IsLower(c) \/ IsDigit(c) THEN c \o SanitizeRunes(Tail(s), FALSE)
             ELSE IF IsUpper(c) THEN LowerChar(c) \o SanitizeRunes(Tail(s), FALSE)
             ELSE IF c = "-" \/ c = "_" THEN "_" \o SanitizeRunes(Tail(s), TRUE)
             ELSE IF ~lastUnderscore THEN "_" \o SanitizeRunes(Tail(s), TRUE)
             ELSE SanitizeRunes(Tail(s), TRUE)

sanitizeSessionName(name) ==
    IF TrimSpace(name) = "" THEN ""
    ELSE TrimLeftChar(TrimRightChar(SanitizeRunes(TrimSpace(name), FALSE), "_"), "_")

\* manager.sanitizeSessionNameForApply
sanitizeSessionNameForApply(name) ==
    Let(ToLower(TrimSpace(name)), LAMBDA s :
        IF s = "" THEN ""
        ELSE Let(TrimLeftChar(TrimRightChar(SanitizeRunes(s, FALSE), "_"), "_"),
                 LAMBDA out : IF out = "" THEN "session" ELSE out))

\* spec.sanitizeName / collapseRepeats / DeriveSessionName
RECURSIVE collapseFrom(_, _, _)
collapseFrom(s, ch, prev) ==
    IF s = "" THEN ""
    ELSE IF Head(s) = ch /\ prev = ch THEN collapseFrom(Tail(s), ch, prev)
         ELSE Head(s) \o collapseFrom(Tail(s), ch, Head(s))

collapseRepeats(s, ch) == collapseFrom(s, ch, "")

RECURSIVE ReplaceUnsafeRuns(_, _)
ReplaceUnsafeRuns(s, inRun) ==
    IF s = "" THEN ""
    ELSE LET c == Head(s)
         IN  IF IsLower(c) \/ IsDigit(c) \/ c = "_" \/ c = "-"
             THEN c \o ReplaceUnsafeRuns(Tail(s), FALSE)
             ELSE IF inRun THEN ReplaceUnsafeRuns(Tail(s), TRUE)
             ELSE "-" \o ReplaceUnsafeRuns(Tail(s), TRUE)

RECURSIVE TrimDashUnderscore(_)
TrimDashUnderscore(s) ==
    IF s # "" /\ Head(s) \in {"-", "_"} THEN TrimDashUnderscore(Tail(s))
    ELSE IF s # "" /\ Char(s, Len(s)) \in {"-", "_"}
         THEN TrimDashUnderscore(SubSeq(s, 1, Len(s) - 1))
    ELSE s

sanitizeName(name) ==
    Let(ToLower(TrimSpace(name)), LAMBDA s0 :
        IF s0 = "" THEN ""
        ELSE Let(collapseRepeats(collapseRepeats(
                     TrimDashUnderscore(ReplaceUnsafeRuns(
                         ReplaceAll(ReplaceAll(s0, " ", "-"), "/", "-"), FALSE)), "-"), "_"),
                 LAMBDA s2 : IF s2 = "" THEN "session" ELSE s2))

DeriveSessionName(prefix, projectPath) ==
    Let(sanitizeName(Base(TrimRightChar(projectPath, "/"))), LAMBDA base :
        IF prefix = "" THEN base
        ELSE Let(sanitizeName(prefix), LAMBDA p :
                 IF p # "" THEN p \o "-" \o base ELSE base))

(***************************************************************************)
(* package templates: spec.Spec -> templates.Spec                          *)
(***************************************************************************)
\* templates.DefaultPolicy().AllowedTmuxCommands
defaultAllowedTmuxCommands ==
    {"new-session", "kill-session", "rename-session", "switch-client", "select-session",
     "new-window", "kill-window", "rename-window", "select-window", "move-window",
     "swap-window", "list-windows", "list-sessions",
     "split-window", "kill-pane", "select-pane", "resize-pane", "select-layout",
     "send-keys", "display-message", "set-option", "set-buffer"}

\* templates.DefaultPolicy().DisallowTmuxCommands
DefaultDisallowTmuxCommands == {"run-shell", "if-shell", "pipe-pane", "respawn-pane"}

DefaultMaxActions    == 200
DefaultMaxCommandLen == 4096

\* templates.DefaultPolicy(); the denylist is a pointer to a set (nil map = Nil).
DefaultPolicy ==
    [AllowShell           |-> FALSE,
     AllowTmuxPassthrough |-> FALSE,
     AllowedTmuxCommands  |-> defaultAllowedTmuxCommands,
     DisallowTmuxCommands |-> Some(DefaultDisallowTmuxCommands),
     MaxActions           |-> DefaultMaxActions,
     MaxCommandLen        |-> DefaultMaxCommandLen]

NewEngineFromSpecPolicy(allowShell, allowTmux, allowed, disallowed) ==
    [DefaultPolicy EXCEPT
        !.AllowShell           = allowShell,
        !.AllowTmuxPassthrough = allowTmux,
        !.AllowedTmuxCommands  = IF Cardinality(allowed) > 0 THEN allowed ELSE @,
        !.DisallowTmuxCommands = IF disallowed # Nil THEN disallowed ELSE @]

\* The zero value of templates.Action.
ZeroAction ==
    [Kind |-> "", Session |-> "", Window |-> "", Pane |-> "", Cwd |-> "", Name |-> "",
     From |-> "", Direction |-> "", Percent |-> 0, Layout |-> "", Command |-> "",
     Keys |-> <<>>, Enter |-> FALSE, TimeoutMS |-> 0, MinQuietMS |-> 0, SettleMS |-> 0,
     PromptRe |-> "", MaxLines |-> 0, Host |-> "", User |-> "", Port |-> 0,
     LoginMode |-> "", ConnectTimeoutMS |-> 0, Option |-> "", Value |-> "",
     Global |-> FALSE, Message |-> "", DurationMS |-> 0, Shell |-> "", TmuxArgs |-> <<>>]

Quote(s) == "\"" \o s \o "\""

\* fmt.Sprintf("%.3f", float64(ms)/1000.0) for ms >= 0
FormatSeconds(ms) ==
    LET frac == ms % 1000
    IN  Itoa(ms \div 1000) \o "."
            \o (IF frac < 10 THEN "00" ELSE IF frac < 100 THEN "0" ELSE "") \o Itoa(frac)

ConvErr(kind, e) == [kind |-> kind, acts |-> <<>>, unsafe |-> FALSE, err |-> e]
ConvOne(kind, act, unsafe) == [kind |-> kind, acts |-> <<act>>, unsafe |-> unsafe, err |-> NoErr]

\* Fault: a converter that lowers `run` to a window started with the command
\* line instead of keys typed into a pane, and knows no other action type.
convertRunAsWindowCommand(ctx, defaultSession, a, pol, disallowed) ==
    IF a.Type = "run" /\ a.Run # Nil
    THEN ConvOne("run",
                 [ZeroAction EXCEPT !.Kind = "new_window", !.Session = defaultSession,
                                    !.Name = a.Run[1].Program,
                                    !.Command = shellJoin(<<a.Run[1].Program>>
                                                              \o a.Run[1].Args)],
                 FALSE)
    ELSE ConvErr(a.Type, "unknown action type " \o Quote(a.Type))

convertSingleAction(ctx, defaultSession, a, pol, disallowed) ==
    LET sess == IF TrimSpace(a.Target.Session) = "" THEN defaultSession
                ELSE TrimSpace(a.Target.Session)
        base == [ZeroAction EXCEPT !.Session = sess,
                                   !.Window  = TrimSpace(a.Target.Window),
                                   !.Pane    = TrimSpace(a.Target.Pane)]
    IN  CASE a.Type = "send_keys" ->
                 IF a.SendKeys = Nil THEN ConvErr("send_keys", "missing send_keys{}")
                 ELSE ConvOne("send_keys",
                              [base EXCEPT !.Kind = "send_keys",
                                           !.Keys = a.SendKeys[1].Keys,
                                           !.Enter = a.SendKeys[1].Enter], FALSE)
          [] a.Type = "run" ->
                 IF a.Run = Nil THEN ConvErr("run", "missing run{}")
                 ELSE ConvOne("run",
                              [base EXCEPT !.Kind = "send_keys",
                                           !.Command = shellJoin(<<a.Run[1].Program>>
                                                                     \o a.Run[1].Args),
                                           !.Enter = IF a.Run[1].Enter = Nil THEN TRUE
                                                     ELSE a.Run[1].Enter[1]], FALSE)
          [] a.Type = "ssh_manager_connect" ->
                 IF a.SshManagerConnect = Nil
                 THEN ConvErr("ssh_manager_connect", "missing ssh_manager_connect{}")
                 ELSE LET c == a.SshManagerConnect[1]
                      IN  ConvOne("ssh_manager_connect",
                                  [base EXCEPT !.Kind = "ssh_manager_connect",
                                               !.Host = TrimSpace(c.Host),
                                               !.User = TrimSpace(c.User),
                                               !.Port = c.Port,
                                               !.LoginMode = TrimSpace(ToLower(c.LoginMode)),
                                               !.ConnectTimeoutMS = c.ConnectTimeoutMS],
                                  FALSE)
          [] a.Type = "wait_for_prompt" ->
                 IF a.WaitForPrompt = Nil
                 THEN ConvErr("wait_for_prompt", "missing wait_for_prompt{}")
                 ELSE LET w == a.WaitForPrompt[1]
                      IN  ConvOne("wait_for_prompt",
                                  [base EXCEPT !.Kind = "wait_for_prompt",
                                               !.TimeoutMS = w.TimeoutMS,
                                               !.MinQuietMS = w.MinQuietMS,
                                               !.SettleMS = w.SettleMS,
                                               !.PromptRe = TrimSpace(w.PromptRegex),
                                               !.MaxLines = w.MaxLines], FALSE)
          [] a.Type = "watch" ->
                 IF a.Watch = Nil THEN ConvErr("watch", "missing watch{}")
                 ELSE IF TrimSpace(a.Watch[1].Command) = ""
                      THEN ConvErr("watch", "watch.command empty")
                 ELSE LET interval == IF a.Watch[1].IntervalSeconds <= 0 THEN 2
                                      ELSE a.Watch[1].IntervalSeconds
                      IN  ConvOne("watch",
                                  [base EXCEPT !.Kind = "send_keys",
                                               !.Command = "watch -n " \o Itoa(interval)
                                                   \o " -t -- " \o TrimSpace(a.Watch[1].Command),
                                               !.Enter = TRUE], FALSE)
          [] a.Type = "shell" ->
                 IF a.Shell = Nil THEN ConvErr("shell", "missing shell{}")
                 ELSE IF ~pol.AllowShell
                      THEN ConvErr("shell", "shell actions disabled by policy")
                 ELSE IF TrimSpace(a.Shell[1].Cmd) = "" THEN ConvErr("shell", "shell.cmd empty")
                 ELSE ConvOne("shell",
                              [base EXCEPT !.Kind = "shell",
                                           !.Shell = TrimSpace(a.Shell[1].Cmd)], TRUE)
          [] a.Type = "tmux" ->
                 IF a.Tmux = Nil THEN ConvErr("tmux", "missing tmux{}")
                 ELSE IF ~pol.AllowTmuxPassthrough
                      THEN ConvErr("tmux", "tmux passthrough disabled by policy")
                 ELSE LET cmd == TrimSpace(a.Tmux[1].Name)
                      IN  IF cmd = "" THEN ConvErr("tmux", "tmux.name empty")
                          ELSE IF disallowed # Nil /\ cmd \in disallowed[1]
                               THEN ConvErr("tmux", "tmux subcommand " \o Quote(cmd)
                                                        \o " is disallowed")
                          ELSE IF pol.AllowedTmuxCommands # Nil
                                    /\ cmd \notin pol.AllowedTmuxCommands[1]
                               THEN ConvErr("tmux", "tmux subcommand " \o Quote(cmd)
                                                        \o " not in allowlist")
                          ELSE ConvOne("tmux",
                                       [base EXCEPT !.Kind = "tmux",
                                                    !.TmuxArgs = <<cmd>> \o a.Tmux[1].Args],
                                       TRUE)
          [] a.Type = "sleep" ->
                 IF a.Sleep = Nil THEN ConvErr("sleep", "missing sleep{}")
                 ELSE IF ~pol.AllowShell
                      THEN ConvErr("sleep", "sleep requires shell enabled (policy)")
                 ELSE IF a.Sleep[1].Milliseconds < 0
                      THEN ConvErr("sleep", "sleep.ms must be >= 0")
                 ELSE ConvOne("sleep",
                              [base EXCEPT !.Kind = "shell",
                                           !.Shell = "sleep "
                                               \o FormatSeconds(a.Sleep[1].Milliseconds)],
                              TRUE)
          [] OTHER -> ConvErr(a.Type, "unknown action type " \o Quote(a.Type))

RECURSIVE Flatten(_)
Flatten(ss) == IF Len(ss) = 0 THEN <<>> ELSE Head(ss) \o Flatten(Tail(ss))

ConvResult(acts, unsafe, e) ==
    IF e # NoErr THEN [acts |-> <<>>, unsafe |-> FALSE, err |-> e]
    ELSE [acts |-> acts, unsafe |-> unsafe, err |-> NoErr]

convertActions(ctx, sessionName, actions, pol, disallowed) ==
    Let([i \in 1..Len(actions) |->
            convertSingleAction(ctx, sessionName, actions[i], pol, disallowed)],
        LAMBDA r :
            ConvResult(Flatten([i \in 1..Len(actions) |-> r[i].acts]),
                       \E i \in 1..Len(actions) : r[i].unsafe,
                       FirstErr([i \in 1..Len(actions) |->
                                    IF r[i].err = NoErr THEN NoErr
                                    ELSE "actions[" \o Itoa(i - 1) \o "] (" \o r[i].kind
                                             \o "): " \o r[i].err])))

\* The defaulting loop over converted window-level actions (no trimming).
DefaultWindowTargets(acts, sessionName, wname) ==
    [i \in 1..Len(acts) |->
        [acts[i] EXCEPT !.Window  = IF @ = "" THEN wname ELSE @,
                        !.Session = IF @ = "" THEN sessionName ELSE @]]

\* The defaulting loop over converted pane-level actions.
DefaultPaneTargets(acts, sessionName, wname) ==
    [i \in 1..Len(acts) |->
        [acts[i] EXCEPT !.Session = IF TrimSpace(@) = "" THEN sessionName ELSE @,
                        !.Window  = IF TrimSpace(@) = "" THEN wname ELSE @]]

SelectWindowAction(sessionName, wname) ==
    [ZeroAction EXCEPT !.Kind = "select_window", !.Session = sessionName, !.Window = wname]

CdAction(sessionName, wname, paneRoot) ==
    [ZeroAction EXCEPT !.Kind = "send_keys", !.Session = sessionName, !.Window = wname,
                       !.Command = "cd " \o shellQuote(paneRoot), !.Enter = TRUE]

PaneRootOf(ctx, p, winRoot) ==
    expandUser(subst(ctx, IF TrimSpace(p.Root) = "" THEN winRoot ELSE TrimSpace(p.Root)))

\* The best-effort parse of a split size "NN%"; 0 when there is no usable percent.
RECURSIVE PercentDigits(_, _)
PercentDigits(num, pv) ==
    IF num = "" THEN pv
    ELSE IF ~IsDigit(Head(num)) THEN 0
    ELSE PercentDigits(Tail(num), pv * 10 + DigitVal(Head(num)))

SplitPercent(sizeIn) ==
    LET size == TrimSpace(sizeIn)
        pv   == PercentDigits(TrimSuffix(size, "%"), 0)
    IN  IF size # "" /\ HasSuffix(size, "%") /\ pv > 0 /\ pv < 100 THEN pv ELSE 0

\* One step of convertPanePlan (i is the 0-based index of the step).
PanePlanStep(ctx, sessionName, w, winRoot, pol, disallowed, i) ==
    Let(w.PanePlan[i + 1], LAMBDA step :
        IF step.Pane # Nil
        THEN Let(PaneRootOf(ctx, step.Pane[1], winRoot), LAMBDA paneRoot :
             Let(convertActions(ctx, sessionName, step.Pane[1].Actions, pol, disallowed),
                 LAMBDA r :
                 ConvResult((IF i = 0 /\ paneRoot # "" /\ paneRoot # winRoot
                             THEN <<CdAction(sessionName, w.Name, paneRoot)>> ELSE <<>>)
                                \o DefaultPaneTargets(r.acts, sessionName, w.Name)
                                \o (IF step.Pane[1].Focus
                                    THEN <<SelectWindowAction(sessionName, w.Name)>>
                                    ELSE <<>>),
                            r.unsafe,
                            IF r.err = NoErr THEN NoErr
                            ELSE "window " \o Quote(w.Name) \o " pane_plan[" \o Itoa(i)
                                     \o "].pane actions: " \o r.err)))
        ELSE IF step.Split # Nil
        THEN Let(ToLower(TrimSpace(step.Split[1].Direction)), LAMBDA dir :
                 ConvResult(<<[ZeroAction EXCEPT !.Kind = "split_window",
                                                 !.Session = sessionName,
                                                 !.Window = w.Name,
                                                 !.Direction = dir,
                                                 !.Cwd = winRoot,
                                                 !.Percent = SplitPercent(step.Split[1].Size)]>>,
                            FALSE,
                            IF dir \in {"h", "v"} THEN NoErr
                            ELSE "window " \o Quote(w.Name) \o " pane_plan[" \o Itoa(i)
                                     \o "].split.direction must be 'h' or 'v'"))
        ELSE ConvResult(<<>>, FALSE,
                        "window " \o Quote(w.Name) \o " pane_plan[" \o Itoa(i)
                            \o "]: invalid step (expected pane or split)"))

\* Sequential composition of conversion results: the first error wins.
ConvSeq(rs) ==
    ConvResult(Flatten([i \in 1..Len(rs) |-> rs[i].acts]),
               \E i \in 1..Len(rs) : rs[i].unsafe,
               FirstErr([i \in 1..Len(rs) |-> rs[i].err]))

\* Fault: a walk over the steps from the last to the first.
convertPanePlanBackwards(ctx, sessionName, w, winRoot, pol, disallowed) ==
    ConvSeq([k \in 1..Len(w.PanePlan) |->
                PanePlanStep(ctx, sessionName, w, winRoot, pol, disallowed,
                             Len(w.PanePlan) - k)])

convertPanePlan(ctx, sessionName, w, winRoot, pol, disallowed) ==
    ConvSeq([k \in 1..Len(w.PanePlan) |->
                PanePlanStep(ctx, sessionName, w, winRoot, pol, disallowed, k - 1)])

\* Fault: a legacy pane whose focus selects the pane by its index.
LegacyPaneFocusByIndex(ctx, sessionName, w, winRoot, pol, disallowed, pi) ==
    Let(PaneRootOf(ctx, w.Panes[pi + 1], winRoot), LAMBDA paneRoot :
    Let(convertActions(ctx, sessionName, w.Panes[pi + 1].Actions, pol, disallowed),
        LAMBDA r :
        ConvResult((IF pi = 0
                    THEN (IF paneRoot # "" /\ paneRoot # winRoot
                          THEN <<CdAction(sessionName, w.Name, paneRoot)>> ELSE <<>>)
                    ELSE <<[ZeroAction EXCEPT !.Kind = "split_window",
                                              !.Session = sessionName,
                                              !.Window = w.Name,
                                              !.Direction = "h",
                                              !.Cwd = paneRoot]>>)
                       \o DefaultPaneTargets(r.acts, sessionName, w.Name)
                       \o (IF w.Panes[pi + 1].Focus
                           THEN <<[ZeroAction EXCEPT !.Kind = "select_pane",
                                                     !.Session = sessionName,
                                                     !.Window = w.Name,
                                                     !.Pane = Itoa(pi)]>>
                           ELSE <<>>),
                   r.unsafe,
                   IF r.err = NoErr THEN NoErr
                   ELSE "window " \o Quote(w.Name) \o " pane[" \o Itoa(pi) \o "] actions: "
                            \o r.err)))

\* One legacy pane of convertWindows (pi is the 0-based index of the pane).
LegacyPane(ctx, sessionName, w, winRoot, pol, disallowed, pi) ==
    Let(PaneRootOf(ctx, w.Panes[pi + 1], winRoot), LAMBDA paneRoot :
    Let(convertActions(ctx, sessionName, w.Panes[pi + 1].Actions, pol, disallowed),
        LAMBDA r :
        ConvResult((IF pi = 0
                    THEN (IF paneRoot # "" /\ paneRoot # winRoot
                          THEN <<CdAction(sessionName, w.Name, paneRoot)>> ELSE <<>>)
                    ELSE <<[ZeroAction EXCEPT !.Kind = "split_window",
                                              !.Session = sessionName,
                                              !.Window = w.Name,
                                              !.Direction = "h",
                                              !.Cwd = paneRoot]>>)
                       \o DefaultPaneTargets(r.acts, sessionName, w.Name)
                       \o (IF w.Panes[pi + 1].Focus
                           THEN <<SelectWindowAction(sessionName, w.Name)>> ELSE <<>>),
                   r.unsafe,
                   IF r.err = NoErr THEN NoErr
                   ELSE "window " \o Quote(w.Name) \o " pane[" \o Itoa(pi) \o "] actions: "
                            \o r.err)))

\* One iteration of the loop of convertWindows (wi is the 0-based window index).
ConvertWindow(ctx, sessionName, sessionRoot, w, wi, pol, disallowed) ==
    IF TrimSpace(w.Name) = ""
    THEN ConvResult(<<>>, FALSE, "windows[" \o Itoa(wi) \o "]: missing name")
    ELSE
    Let(expandUser(subst(ctx, IF TrimSpace(w.Root) = "" THEN sessionRoot
                              ELSE TrimSpace(w.Root))), LAMBDA winRoot :
    Let(convertActions(ctx, sessionName, w.Actions, pol, disallowed), LAMBDA wa :
    Let(TrimSpace(ToLower(w.FocusPane)), LAMBDA fp :
        ConvSeq(<<
            ConvResult(<<[ZeroAction EXCEPT !.Kind = "new_window", !.Session = sessionName,
                                            !.Name = w.Name, !.Cwd = winRoot],
                         SelectWindowAction(sessionName, w.Name)>>
                           \o DefaultWindowTargets(wa.acts, sessionName, w.Name),
                       wa.unsafe,
                       IF wa.err = NoErr THEN NoErr
                       ELSE "window " \o Quote(w.Name) \o " actions: " \o wa.err),
            IF Len(w.PanePlan) > 0
            THEN convertPanePlan(ctx, sessionName, w, winRoot, pol, disallowed)
            ELSE ConvSeq([k \in 1..Len(w.Panes) |->
                             LegacyPane(ctx, sessionName, w, winRoot, pol, disallowed, k - 1)]),
            ConvResult((IF TrimSpace(w.Layout) # ""
                        THEN <<[ZeroAction EXCEPT !.Kind = "select_layout",
                                                  !.Session = sessionName,
                                                  !.Window = w.Name, !.Layout = w.Layout]>>
                        ELSE <<>>)
                           \o (IF w.Focus THEN <<SelectWindowAction(sessionName, w.Name)>>
                               ELSE <<>>)
                           \o (IF fp # "" /\ fp # "active"
                               THEN <<[ZeroAction EXCEPT !.Kind = "select_pane",
                                                         !.Session = sessionName,
                                                         !.Window = w.Name, !.Pane = fp]>>
                               ELSE <<>>),
                       FALSE, NoErr)>>))))

containsKind(actions, kind) == \E i \in 1..Len(actions) : actions[i].Kind = kind

convertWindows(ctx, sessionName, sessionRoot, windows, pol, disallowed) ==
    IF Len(windows) = 0 THEN ConvResult(<<>>, FALSE, "no windows in spec")
    ELSE Let(ConvSeq([k \in 1..Len(windows) |->
                         ConvertWindow(ctx, sessionName, sessionRoot, windows[k],
                                       k - 1, pol, disallowed)]),
             LAMBDA r :
                 ConvResult(r.acts,
                            r.unsafe \/ containsKind(r.acts, "tmux")
                                     \/ containsKind(r.acts, "shell"),
                            r.err))

\* The zero value of templates.Spec.
ZeroTemplate == [Version |-> 0, ID |-> "", Name |-> "", Actions |-> <<>>, Unsafe |-> FALSE]

BuildErr(e) ==
    [ctx |-> [ProjectName |-> "", ProjectPath |-> "", SessionName |-> "", WorkingDir |-> "",
              Env |-> <<>>, TmuxSocket |-> ""],
     tpl |-> ZeroTemplate, unsafe |-> FALSE, err |-> e]

firstNonEmpty(a, b) == IF TrimSpace(a) # "" THEN TrimSpace(a) ELSE TrimSpace(b)

SetOptionAction(option, n) ==
    [ZeroAction EXCEPT !.Kind = "set_option", !.Global = TRUE, !.Option = option,
                       !.Value = Itoa(n)]

\* BuildFromSpec after the structural validation: s is the validated spec.
BuildValidated(s, bo) ==
    IF TrimSpace(bo.ProjectRoot) = "" THEN BuildErr("BuildOptions.ProjectRoot is required")
    ELSE
    Let(expandUser(TrimSpace(bo.ProjectRoot)), LAMBDA projectRoot :
    Let(sanitizeSessionName(
            IF TrimSpace(bo.SessionName) # "" THEN TrimSpace(bo.SessionName)
            ELSE IF TrimSpace(s.Session.Name) # "" THEN TrimSpace(s.Session.Name)
            ELSE DeriveSessionName(TrimSpace(s.Session.Prefix), projectRoot)),
        LAMBDA sessionName :
    Let([AllowShell           |-> bo.AllowShell,
         AllowTmuxPassthrough |-> bo.AllowTmuxPassthrough,
         AllowedTmuxCommands  |-> Some(IF Cardinality(bo.AllowedTmuxCommands) = 0
                                       THEN DefaultPolicy.AllowedTmuxCommands
                                       ELSE bo.AllowedTmuxCommands)],
        LAMBDA pol :
    Let(ValidatePolicy(s, pol), LAMBDA polErr :
        IF sessionName = "" THEN BuildErr("resolved session name is empty")
        ELSE IF polErr # NoErr THEN BuildErr(polErr)
        ELSE
    Let([ProjectName |-> IF TrimSpace(bo.ProjectName) = ""
                         THEN Base(TrimRightChar(projectRoot, "/"))
                         ELSE TrimSpace(bo.ProjectName),
         ProjectPath |-> projectRoot,
         SessionName |-> sessionName,
         WorkingDir  |-> IF TrimSpace(s.Session.Root) = "" THEN projectRoot
                         ELSE expandUser(TrimSpace(s.Session.Root)),
         Env |-> s.Env, TmuxSocket |-> ""],
        LAMBDA ctx :
    Let(Len(s.Actions) > 0 /\ ~(bo.PreferWindows /\ Len(s.Windows) > 0),
        LAMBDA useActions :
    Let(IF bo.DisallowTmuxCommands = Nil THEN DefaultPolicy.DisallowTmuxCommands
        ELSE bo.DisallowTmuxCommands,
        LAMBDA disallowed :
    Let(IF useActions
        THEN convertActions(ctx, sessionName, s.Actions, pol, disallowed)
        ELSE convertWindows(ctx, sessionName, ctx.WorkingDir, s.Windows, pol, disallowed),
        LAMBDA conv :
    Let(TrimSpace(ToLower(s.Session.FocusWindow)), LAMBDA fw :
        IF conv.err # NoErr THEN BuildErr(conv.err)
        ELSE [ctx |-> ctx,
              tpl |-> [Version |-> s.Version, ID |-> "",
                       Name |-> firstNonEmpty(s.Name, ctx.ProjectName),
                       Actions |->
                           (IF bo.IncludeEnsureSession
                            THEN <<[ZeroAction EXCEPT !.Kind = "ensure_session",
                                                      !.Session = sessionName,
                                                      !.Cwd = ctx.WorkingDir]>>
                            ELSE <<>>)
                           \o (IF s.Session.BaseIndex # Nil
                               THEN <<SetOptionAction("base-index", s.Session.BaseIndex[1])>>
                               ELSE <<>>)
                           \o (IF s.Session.PaneBaseIndex # Nil
                               THEN <<SetOptionAction("pane-base-index",
                                                      s.Session.PaneBaseIndex[1])>>
                               ELSE <<>>)
                           \o conv.acts
                           \o (IF ~useActions /\ fw # "" /\ fw # "active"
                               THEN <<SelectWindowAction(sessionName,
                                                         TrimSpace(s.Session.FocusWindow))>>
                               ELSE <<>>),
                       Unsafe |-> conv.unsafe],
              unsafe |-> conv.unsafe, err |-> NoErr])))))))))

BuildFromSpec(s, bo) ==
    Let(Validate(s), LAMBDA e :
        IF e # NoErr THEN BuildErr(e) ELSE BuildValidated(Normalize(s), bo))

\* FromSpec: [tpl, err].
\* Fault: a FromSpec that prefers the spec-level actions to the windows.
FromSpecPreferActions(ctx, s, allowShell, allowTmuxPassthrough, includeEnsureSession) ==
    Let(TrimSpace(ctx.ProjectPath), LAMBDA projectPath :
        IF projectPath = "" THEN [tpl |-> ZeroTemplate, err |-> "context: missing ProjectPath"]
        ELSE
        Let(BuildFromSpec(s,
                [ProjectRoot |-> projectPath,
                 ProjectName |-> IF TrimSpace(ctx.ProjectName) = ""
                                 THEN Base(TrimRightChar(projectPath, "/"))
                                 ELSE TrimSpace(ctx.ProjectName),
                 SessionName |-> IF TrimSpace(ctx.SessionName) # ""
                                 THEN TrimSpace(ctx.SessionName)
                                 ELSE IF TrimSpace(s.Session.Name) # "" THEN s.Session.Name
                                 ELSE DeriveSessionName(TrimSpace(s.Session.Prefix),
                                                        projectPath),
                 PreferWindows |-> FALSE,
                 IncludeEnsureSession |-> includeEnsureSession,
                 AllowShell |-> allowShell,
                 AllowTmuxPassthrough |-> allowTmuxPassthrough,
                 AllowedTmuxCommands |-> {}, DisallowTmuxCommands |-> Nil]),
            LAMBDA b : [tpl |-> b.tpl, err |-> b.err]))

FromSpec(ctx, s, allowShell, allowTmuxPassthrough, includeEnsureSession) ==
    Let(TrimSpace(ctx.ProjectPath), LAMBDA projectPath :
        IF projectPath = "" THEN [tpl |-> ZeroTemplate, err |-> "context: missing ProjectPath"]
        ELSE
        Let(BuildFromSpec(s,
                [ProjectRoot |-> projectPath,
                 ProjectName |-> IF TrimSpace(ctx.ProjectName) = ""
                                 THEN Base(TrimRightChar(projectPath, "/"))
                                 ELSE TrimSpace(ctx.ProjectName),
                 SessionName |-> IF TrimSpace(ctx.SessionName) # ""
                                 THEN TrimSpace(ctx.SessionName)
                                 ELSE IF TrimSpace(s.Session.Name) # "" THEN s.Session.Name
                                 ELSE DeriveSessionName(TrimSpace(s.Session.Prefix),
                                                        projectPath),
                 PreferWindows |-> TRUE,
                 IncludeEnsureSession |-> includeEnsureSession,
                 AllowShell |-> allowShell,
                 AllowTmuxPassthrough |-> allowTmuxPassthrough,
                 AllowedTmuxCommands |-> {}, DisallowTmuxCommands |-> Nil]),
            LAMBDA b : [tpl |-> b.tpl, err |-> b.err]))

(***************************************************************************)
(* package templates: Engine.Compile                                       *)
(***************************************************************************)
CompileErr(e) ==
    [cmds |-> <<>>, unsafe |-> FALSE, warnings |-> <<>>, err |-> e, panic |-> FALSE]
CompileOne(args, explanation) ==
    [cmds |-> <<Command(args, explanation, FALSE)>>, unsafe |-> FALSE, warnings |-> <<>>,
     err |-> NoErr, panic |-> FALSE]

\* The target of send_keys, wait_for_prompt and ssh_manager_connect.
PaneTarget(session, a) ==
    LET t == IF TrimSpace(a.Window) # "" THEN session \o ":" \o TrimSpace(a.Window)
             ELSE session
    IN  IF TrimSpace(a.Pane) = "" THEN t
        ELSE IF HasPrefix(TrimSpace(a.Pane), "%") THEN TrimSpace(a.Pane)
        ELSE t \o "." \o TrimSpace(a.Pane)

WindowTarget(session, a) ==
    IF TrimSpace(a.Window) # "" THEN session \o ":" \o TrimSpace(a.Window) ELSE session

\* The keys of a send_keys action that has Keys: substituted, trimmed, empties dropped.
RECURSIVE SubstKeys(_, _)
SubstKeys(ctx, keys) ==
    IF Len(keys) = 0 THEN <<>>
    ELSE Let(TrimSpace(subst(ctx, Head(keys))), LAMBDA ks :
             (IF ks = "" THEN <<>> ELSE <<ks>>) \o SubstKeys(ctx, Tail(keys)))

OrDefault(n, def) == IF n <= 0 THEN def ELSE n
ClampNeg(n) == IF n < 0 THEN 0 ELSE n
EnsureSessionWarning ==
    "ensure_session is non-atomic in pure tmux command lists; consider pre-checking in code"
DefaultDisplayMS == 1500

\* Fault: a passthrough branch that consults the denylist only.
CompileTmuxNoAllowlist(pol, ctx, a) ==
    IF Len(a.TmuxArgs) = 0 THEN [CompileErr("tmux: missing TmuxArgs") EXCEPT !.unsafe = TRUE]
    ELSE
    Let([i \in 1..Len(a.TmuxArgs) |-> subst(ctx, a.TmuxArgs[i])], LAMBDA args :
    Let(Fields(TrimPrefix(TrimSpace(args[1]), "tmux ")), LAMBDA flds :
        IF Len(flds) = 0 \/ flds[1] = ""
        THEN [CompileErr("tmux: empty subcommand") EXCEPT !.unsafe = TRUE]
        ELSE IF pol.DisallowTmuxCommands # Nil /\ flds[1] \in pol.DisallowTmuxCommands[1]
             THEN [CompileErr("tmux: subcommand " \o Quote(flds[1]) \o " is disallowed")
                      EXCEPT !.unsafe = TRUE]
        ELSE [cmds |-> <<Command(args, "unsafe tmux passthrough", TRUE)>>,
              unsafe |-> TRUE, warnings |-> <<>>, err |-> NoErr, panic |-> FALSE]))

\* Fault: a passthrough branch for which an empty allowlist allows nothing.
CompileTmuxEmptyDenies(pol, ctx, a) ==
    IF Len(a.TmuxArgs) = 0 THEN [CompileErr("tmux: missing TmuxArgs") EXCEPT !.unsafe = TRUE]
    ELSE
    Let([i \in 1..Len(a.TmuxArgs) |-> subst(ctx, a.TmuxArgs[i])], LAMBDA args :
    Let(Fields(TrimPrefix(TrimSpace(args[1]), "tmux ")), LAMBDA flds :
        IF Len(flds) = 0 \/ flds[1] = ""
        THEN [CompileErr("tmux: empty subcommand") EXCEPT !.unsafe = TRUE]
        ELSE IF pol.DisallowTmuxCommands # Nil /\ flds[1] \in pol.DisallowTmuxCommands[1]
             THEN [CompileErr("tmux: subcommand " \o Quote(flds[1]) \o " is disallowed")
                      EXCEPT !.unsafe = TRUE]
        ELSE IF flds[1] \notin pol.AllowedTmuxCommands
             THEN [CompileErr("tmux: subcommand " \o Quote(flds[1]) \o " not in allowlist")
                      EXCEPT !.unsafe = TRUE]
        ELSE [cmds |-> <<Command(args, "unsafe tmux passthrough", TRUE)>>,
              unsafe |-> TRUE, warnings |-> <<>>, err |-> NoErr, panic |-> FALSE]))

\* The passthrough branch of compileAction after the policy switch.
CompileTmux(pol, ctx, a) ==
    IF Len(a.TmuxArgs) = 0 THEN [CompileErr("tmux: missing TmuxArgs") EXCEPT !.unsafe = TRUE]
    ELSE
    Let([i \in 1..Len(a.TmuxArgs) |-> subst(ctx, a.TmuxArgs[i])], LAMBDA args :
    Let(Fields(TrimPrefix(TrimSpace(args[1]), "tmux ")), LAMBDA flds :
        IF Len(flds) = 0
        THEN [CompileErr("panic: runtime error: index out of range [0] with length 0")
                 EXCEPT !.unsafe = TRUE, !.panic = TRUE]
        ELSE
        Let(flds[1], LAMBDA sub :
        Let(IF sub = "" THEN "tmux: empty subcommand"
            ELSE IF pol.DisallowTmuxCommands # Nil /\ sub \in pol.DisallowTmuxCommands[1]
                 THEN "tmux: subcommand " \o Quote(sub) \o " is disallowed"
            ELSE IF sub \notin (IF Cardinality(pol.AllowedTmuxCommands) = 0
                                THEN defaultAllowedTmuxCommands
                                ELSE pol.AllowedTmuxCommands)
                 THEN "tmux: subcommand " \o Quote(sub) \o " not in allowlist"
            ELSE NoErr,
            LAMBDA e :
                IF e # NoErr THEN [CompileErr(e) EXCEPT !.unsafe = TRUE]
                ELSE [cmds |-> <<Command(args, "unsafe tmux passthrough", TRUE)>>,
                      unsafe |-> TRUE, warnings |-> <<>>, err |-> NoErr,
                      panic |-> FALSE]))))

\* Engine.compileAction under the Engine's policy pol.
compileAction(pol, ctx, a) ==
    Let(IF TrimSpace(a.Session) = "" THEN ctx.SessionName ELSE TrimSpace(a.Session),
        LAMBDA session :
    Let(IF TrimSpace(a.Cwd) = "" THEN ctx.WorkingDir
        ELSE expandUser(subst(ctx, TrimSpace(a.Cwd))),
        LAMBDA cwd :
    Let(IF TrimSpace(a.Command) # "" THEN <<"--", "bash", "-lc", subst(ctx, a.Command)>>
        ELSE <<>>,
        LAMBDA shellOf :
    Let(PaneTarget(session, a), LAMBDA pt :
    Let(WindowTarget(session, a), LAMBDA wt :
        CASE a.Kind = "ensure_session" ->
                 [CompileOne(<<"new-session", "-d", "-s", session, "-c", cwd>>,
                             "create detached session if missing (may fail if exists)")
                     EXCEPT !.warnings = <<EnsureSessionWarning>>]
          [] a.Kind = "new_window" ->
                 IF TrimSpace(a.Name) = "" THEN CompileErr("new_window: missing Name")
                 ELSE CompileOne(<<"new-window", "-t", session, "-n", TrimSpace(a.Name),
                                   "-c", cwd>> \o shellOf,
                                 "create window " \o TrimSpace(a.Name))
          [] a.Kind = "split_window" ->
                 Let(ToLower(TrimSpace(a.Direction)), LAMBDA dir :
                     IF dir \notin {"h", "v"}
                     THEN CompileErr("split_window: Direction must be 'h' or 'v'")
                     ELSE IF a.Percent > 99
                          THEN CompileErr("split_window: Percent must be 1-99")
                     ELSE CompileOne(<<"split-window", IF dir = "h" THEN "-h" ELSE "-v",
                                       "-t", wt, "-c", cwd>>
                                         \o (IF a.Percent > 0 THEN <<"-p", Itoa(a.Percent)>>
                                             ELSE <<>>)
                                         \o shellOf,
                                     "split window (" \o dir \o ")"))
          [] a.Kind = "rename_window" ->
                 Let(session \o ":" \o (IF TrimSpace(a.From) # "" THEN TrimSpace(a.From)
                                          ELSE IF TrimSpace(a.Window) # ""
                                               THEN TrimSpace(a.Window)
                                          ELSE "0"),
                     LAMBDA target :
                     IF TrimSpace(a.Name) = ""
                     THEN CompileErr("rename_window: missing Name (new window name)")
                     ELSE CompileOne(<<"rename-window", "-t", target, TrimSpace(a.Name)>>,
                                     "rename window " \o target \o " -> " \o TrimSpace(a.Name)))
          [] a.Kind = "select_window" ->
                 IF TrimSpace(a.Window) = "" THEN CompileErr("select_window: missing Window")
                 ELSE CompileOne(<<"select-window", "-t", session \o ":" \o TrimSpace(a.Window)>>,
                                 "select window " \o session \o ":" \o TrimSpace(a.Window))
          [] a.Kind = "select_pane" ->
                 Let(TrimSpace(a.Pane), LAMBDA pn :
                 Let(IF ~HasPrefix(pn, "%") /\ ~Contains(pn, ":")
                     THEN session \o ":." \o pn ELSE pn,
                     LAMBDA target :
                     IF pn = "" THEN CompileErr("select_pane: missing Pane")
                     ELSE CompileOne(<<"select-pane", "-t", target>>,
                                     "select pane " \o target)))
          [] a.Kind = "select_layout" ->
                 IF TrimSpace(a.Layout) = "" THEN CompileErr("select_layout: missing Layout")
                 ELSE CompileOne(<<"select-layout", "-t", wt,
                                   TrimSpace(a.Layout)>>,
                                 "select layout " \o TrimSpace(a.Layout))
          [] a.Kind = "send_keys" ->
                 IF Len(a.Keys) = 0 /\ TrimSpace(a.Command) = ""
                 THEN CompileErr("send_keys: missing Keys or Command")
                 ELSE CompileOne(<<"send-keys", "-t", pt>>
                                     \o (IF Len(a.Keys) > 0 THEN SubstKeys(ctx, a.Keys)
                                         ELSE <<subst(ctx, a.Command)>>)
                                     \o (IF a.Enter THEN <<"C-m">> ELSE <<>>),
                                 "send keys to " \o pt)
          [] a.Kind = "wait_for_prompt" ->
                 CompileOne(<<WaitSentinel, pt,
                              Itoa(OrDefault(a.TimeoutMS, DefaultTimeoutMS)),
                              Itoa(OrDefault(a.MinQuietMS, DefaultMinQuietMS)),
                              Itoa(OrDefault(a.SettleMS, DefaultSettleMS)),
                              Itoa(OrDefault(a.MaxLines, DefaultMaxLines)),
                              TrimSpace(a.PromptRe)>>,
                            "wait for prompt (best-effort) in " \o pt)
          [] a.Kind = "ssh_manager_connect" ->
                 IF TrimSpace(a.Host) = "" THEN CompileErr("ssh_manager_connect: missing Host")
                 ELSE CompileOne(<<SshSentinel, pt, TrimSpace(a.Host),
                                   TrimSpace(a.User), Itoa(ClampNeg(a.Port)),
                                   IF TrimSpace(ToLower(a.LoginMode)) = "" THEN "askpass"
                                   ELSE TrimSpace(ToLower(a.LoginMode)),
                                   Itoa(ClampNeg(a.ConnectTimeoutMS))>>,
                                 "ssh_manager_connect " \o TrimSpace(a.Host) \o " in "
                                     \o pt)
          [] a.Kind = "set_option" ->
                 IF TrimSpace(a.Option) = "" THEN CompileErr("set_option: missing Option")
                 ELSE CompileOne(<<"set-option">>
                                     \o (IF a.Global THEN <<"-g">> ELSE <<"-t", session>>)
                                     \o <<TrimSpace(a.Option), subst(ctx, a.Value)>>,
                                 "set option " \o TrimSpace(a.Option))
          [] a.Kind = "display_message" ->
                 Let(subst(ctx, a.Message), LAMBDA msg :
                     IF TrimSpace(msg) = ""
                     THEN CompileErr("display_message: missing Message")
                     ELSE CompileOne(<<"display-message", "-d",
                                       Itoa(OrDefault(a.DurationMS, DefaultDisplayMS)), msg>>,
                                     "display message"))
          [] a.Kind = "shell" ->
                 Let(IF TrimSpace(a.Shell) # "" THEN TrimSpace(a.Shell)
                     ELSE TrimSpace(a.Command),
                     LAMBDA sh :
                 Let(IF TrimSpace(a.Name) = "" THEN "shell" ELSE TrimSpace(a.Name),
                     LAMBDA name :
                     IF ~pol.AllowShell THEN CompileErr("shell action disabled by policy")
                     ELSE IF sh = ""
                          THEN [CompileErr("shell: missing Shell/Command") EXCEPT !.unsafe = TRUE]
                     ELSE [cmds |-> <<Command(<<"new-window", "-t", session, "-n", name,
                                                "-c", cwd, "--", "bash", "-lc",
                                                subst(ctx, sh)>>,
                                              "unsafe shell window " \o name, TRUE)>>,
                           unsafe |-> TRUE, warnings |-> <<>>, err |-> NoErr,
                           panic |-> FALSE]))
          [] a.Kind = "tmux" ->
                 IF ~pol.AllowTmuxPassthrough
                 THEN CompileErr("tmux passthrough disabled by policy")
                 ELSE CompileTmux(pol, ctx, a)
          [] OTHER -> CompileErr("unknown action kind " \o Quote(a.Kind)))))))

NoCompiled == [Commands |-> <<>>, UnsafeUsed |-> FALSE, Warnings |-> <<>>]

\* Fault: a measure that adds up the bytes of the arguments alone.
RECURSIVE ArgsLenBytesOnly(_)
ArgsLenBytesOnly(args) ==
    IF Len(args) = 0 THEN 0 ELSE Len(Head(args)) + ArgsLenBytesOnly(Tail(args))

\* The total argument length Compile measures for one command.
RECURSIVE ArgsLen(_)
ArgsLen(args) == IF Len(args) = 0 THEN 0 ELSE Len(Head(args)) + 1 + ArgsLen(Tail(args))

\* Fault: a loop that keeps the unsafe flag of the latest action only.
RECURSIVE CompileLoopLatestFlag(_, _, _, _, _)
CompileLoopLatestFlag(pol, ctx, actions, i, out) ==
    IF i > Len(actions) THEN [compiled |-> out, err |-> NoErr, panic |-> FALSE]
    ELSE Let(compileAction(pol, ctx, actions[i]), LAMBDA r :
             IF r.panic THEN [compiled |-> NoCompiled, err |-> r.err, panic |-> TRUE]
             ELSE IF r.err # NoErr
                  THEN [compiled |-> NoCompiled,
                        err |-> "spec action[" \o Itoa(i - 1) \o "] (" \o actions[i].Kind
                                    \o "): " \o r.err,
                        panic |-> FALSE]
             ELSE CompileLoopLatestFlag(pol, ctx, actions, i + 1,
                                        [Commands   |-> out.Commands \o r.cmds,
                                         UnsafeUsed |-> r.unsafe,
                                         Warnings   |-> out.Warnings \o r.warnings]))

\* The loop of Compile over the actions, stopping at the first error or panic.
RECURSIVE CompileLoop(_, _, _, _, _)
CompileLoop(pol, ctx, actions, i, out) ==
    IF i > Len(actions) THEN [compiled |-> out, err |-> NoErr, panic |-> FALSE]
    ELSE Let(compileAction(pol, ctx, actions[i]), LAMBDA r :
             IF r.panic THEN [compiled |-> NoCompiled, err |-> r.err, panic |-> TRUE]
             ELSE IF r.err # NoErr
                  THEN [compiled |-> NoCompiled,
                        err |-> "spec action[" \o Itoa(i - 1) \o "] (" \o actions[i].Kind
                                    \o "): " \o r.err,
                        panic |-> FALSE]
             ELSE CompileLoop(pol, ctx, actions, i + 1,
                              [Commands   |-> out.Commands \o r.cmds,
                               UnsafeUsed |-> out.UnsafeUsed \/ r.unsafe,
                               Warnings   |-> out.Warnings \o r.warnings]))

\* An error return of Engine.Compile.
CompileFail(e) == [compiled |-> NoCompiled, err |-> e, panic |-> FALSE]

\* Engine.Compile: [compiled, err, panic].
Compile(pol, ctxIn, tplSpec) ==
    Let(IF pol.MaxActions <= 0 THEN DefaultMaxActions ELSE pol.MaxActions,
        LAMBDA maxActions :
    Let(IF pol.MaxCommandLen <= 0 THEN DefaultMaxCommandLen ELSE pol.MaxCommandLen,
        LAMBDA maxLen :
    Let(Abs(expandUser(ctxIn.ProjectPath)), LAMBDA path :
        IF ctxIn.SessionName = "" THEN CompileFail("context: missing SessionName")
        ELSE IF ctxIn.ProjectPath = "" THEN CompileFail("context: missing ProjectPath")
        ELSE IF Len(tplSpec.Actions) = 0 THEN CompileFail("spec: no actions")
        ELSE IF Len(tplSpec.Actions) > maxActions
             THEN CompileFail("spec: too many actions (" \o Itoa(Len(tplSpec.Actions))
                                  \o " > " \o Itoa(maxActions) \o ")")
        ELSE
        Let(CompileLoop(pol,
                        [ctxIn EXCEPT !.ProjectPath = path,
                                      !.ProjectName = IF @ = "" THEN Base(path) ELSE @,
                                      !.WorkingDir  = IF @ = "" THEN path ELSE @],
                        tplSpec.Actions, 1, NoCompiled),
            LAMBDA r :
        Let(r.compiled.Commands, LAMBDA cmds :
        Let({i \in 1..Len(cmds) : ArgsLen(cmds[i].Args) > maxLen}, LAMBDA long :
            IF r.err # NoErr \/ long = {} THEN r
            ELSE Let(CHOOSE i \in long : \A j \in long : i <= j, LAMBDA first :
                     CompileFail("compiled command[" \o Itoa(first - 1) \o "] too long ("
                                     \o Itoa(ArgsLen(cmds[first].Args)) \o " chars > "
                                     \o Itoa(maxLen) \o ")"))))))))

(***************************************************************************)
(* package manager: ApplySpecFile, and a caller of the templates package   *)
(***************************************************************************)
NoEnv == <<>>
ZeroContext ==
    [ProjectName |-> "", ProjectPath |-> "", SessionName |-> "", WorkingDir |-> "",
     Env |-> NoEnv, TmuxSocket |-> ""]

\* The directory of the spec file, the default of ApplySpecOptions.ProjectPath.
SpecDir == "/w/demo"

\* manager.expandHome
expandHome(path) ==
    LET p == TrimSpace(path)
    IN  IF HasPrefix(p, "~/")
        THEN (IF p = "~/" THEN Getenv("HOME") ELSE Getenv("HOME") \o "/" \o SubSeq(p, 3, Len(p)))
        ELSE p

\* The spec.Policy ApplySpecFile validates against.
ApplySpecPolicy(o) ==
    [AllowShell |-> o.AllowShell, AllowTmuxPassthrough |-> o.AllowTmuxPassthrough,
     AllowedTmuxCommands |-> Some(SpecDefaultAllowed)]

\* The templates.Context ApplySpecFile builds for the loaded spec sp.
ApplyContext(sp, o) ==
    Let(Abs(expandHome(IF TrimSpace(o.ProjectPath) = "" THEN SpecDir
                       ELSE TrimSpace(o.ProjectPath))),
        LAMBDA projectPath :
    Let(IF TrimSpace(o.ProjectName) = "" THEN Base(TrimRightChar(projectPath, "/"))
        ELSE TrimSpace(o.ProjectName),
        LAMBDA projectName :
    Let(IF TrimSpace(o.SessionName) # "" THEN TrimSpace(o.SessionName)
        ELSE IF TrimSpace(sp.Session.Name) # "" THEN TrimSpace(sp.Session.Name)
        ELSE sanitizeSessionNameForApply(projectName),
        LAMBDA n :
        [ProjectName |-> projectName, ProjectPath |-> projectPath,
         SessionName |-> IF n = "" THEN "session" ELSE n,
         WorkingDir |-> projectPath, Env |-> sp.Env, TmuxSocket |-> ""])))

\* The BuildOptions of a caller that hands its own command sets to BuildFromSpec.
CallerBuildOptions(o) ==
    [ProjectRoot |-> o.ProjectPath, ProjectName |-> o.ProjectName,
     SessionName |-> o.SessionName, PreferWindows |-> TRUE,
     IncludeEnsureSession |-> o.IncludeEnsureSession,
     AllowShell |-> o.AllowShell, AllowTmuxPassthrough |-> o.AllowTmuxPassthrough,
     AllowedTmuxCommands |-> o.AllowedTmuxCommands,
     DisallowTmuxCommands |-> o.DisallowTmuxCommands]

PipelineFrame == <<specIn, opt, policy, dryRun, runnerNil, idx, calls, handled, now, wait,
                   environ, flags, execs, tui>>

\* spec.LoadFile: the decoded document goes through Validate.
ApplyLoad ==
    /\ pc = "load"
    /\ \E e \in {Validate(specIn)} :
           IF e # NoErr
           THEN pc' = "failed" /\ err' = "load spec: " \o e /\ loaded' = loaded
           ELSE pc' = "policy" /\ err' = NoErr /\ loaded' = Normalize(specIn)
    /\ UNCHANGED <<PipelineFrame, context, tpl, compiled, lines>>

ApplyValidatePolicy ==
    /\ pc = "policy"
    /\ \E e \in {ValidatePolicy(loaded, ApplySpecPolicy(opt))} :
           IF e # NoErr THEN pc' = "failed" /\ err' = "spec policy rejected: " \o e
           ELSE pc' = "fromspec" /\ err' = NoErr
    /\ UNCHANGED <<PipelineFrame, loaded, context, tpl, compiled, lines>>

ApplyFromSpec ==
    /\ pc = "fromspec"
    /\ opt.Mode = "apply"
    /\ \E c \in {ApplyContext(loaded, opt)} :
       \E r \in {FromSpec(c, loaded, opt.AllowShell, opt.AllowTmuxPassthrough,
                          opt.IncludeEnsureSession)} :
           /\ context' = c
           /\ IF r.err # NoErr
              THEN pc' = "failed" /\ err' = "convert spec: " \o r.err /\ tpl' = tpl
              ELSE pc' = "compile" /\ err' = NoErr /\ tpl' = r.tpl
    /\ UNCHANGED <<PipelineFrame, loaded, compiled, lines>>

\* A caller of the package that builds the IR with BuildFromSpec and its own sets.
CallBuildFromSpec ==
    /\ pc = "fromspec"
    /\ opt.Mode = "build"
    /\ \E r \in {BuildFromSpec(specIn, CallerBuildOptions(opt))} :
           IF r.err # NoErr
           THEN pc' = "failed" /\ err' = r.err /\ tpl' = tpl /\ context' = context
           ELSE pc' = "compile" /\ err' = NoErr /\ tpl' = r.tpl /\ context' = r.ctx
    /\ UNCHANGED <<PipelineFrame, loaded, compiled, lines>>

\* ApplySpecFile from eng.Compile to the call of eng.Execute.
ApplyCompile ==
    /\ pc = "compile"
    /\ opt.Mode = "apply"
    /\ \E r \in {Compile(policy, context, tpl)} :
           IF r.panic THEN pc' = "panic" /\ err' = r.err /\ UNCHANGED <<compiled, lines>>
           ELSE IF r.err # NoErr
                THEN pc' = "failed" /\ err' = "compile spec: " \o r.err
                         /\ UNCHANGED <<compiled, lines>>
           ELSE /\ compiled' = r.compiled
                /\ IF opt.DryRun
                   THEN pc' = "returned" /\ err' = NoErr /\ lines' = DryRunLines(r.compiled)
                   ELSE IF runnerNil
                        THEN pc' = "returned" /\ lines' = <<>>
                                 /\ err' = "no runner provided for execution (set DryRun=true or provide a Runner)"
                   ELSE pc' = "entry" /\ err' = NoErr /\ lines' = DryRunLines(r.compiled)
    /\ UNCHANGED <<PipelineFrame, loaded, context, tpl>>

\* The caller of the package compiles and then calls Execute.
CallCompile ==
    /\ pc = "compile"
    /\ opt.Mode \in {"build", "compile"}
    /\ \E r \in {Compile(policy, context, tpl)} :
           IF r.panic THEN pc' = "panic" /\ err' = r.err /\ compiled' = compiled
           ELSE IF r.err # NoErr THEN pc' = "failed" /\ err' = r.err /\ compiled' = compiled
           ELSE pc' = "entry" /\ err' = NoErr /\ compiled' = r.compiled
    /\ UNCHANGED <<PipelineFrame, loaded, context, tpl, lines>>

\* ApplySpecFile after eng.Execute returned.
ApplyReturn ==
    /\ pc = "done"
    /\ opt.Mode = "apply"
    /\ pc' = "returned"
    /\ err' = IF err # NoErr THEN "execute spec: " \o err ELSE NoErr
    /\ UNCHANGED <<PipelineFrame, loaded, context, tpl, compiled, lines>>

(***************************************************************************)
(* cmd/tmux-session-manager: main, from flag.Parse to the end of the spec  *)
(* apply mode. flags.args is os.Args[1:]; the file system and tmux answer  *)
(* as they please.                                                         *)
(***************************************************************************)
parseEnvBool(key, def) ==
    LET v == ToLower(TrimSpace(Getenv(key)))
    IN  IF v \in {"1", "true", "yes", "y", "on"} THEN TRUE
        ELSE IF v \in {"0", "false", "no", "n", "off"} THEN FALSE
        ELSE def

RECURSIVE TrimmedNonEmpty(_)
TrimmedNonEmpty(parts) ==
    IF parts = <<>> THEN <<>>
    ELSE (IF TrimSpace(Head(parts)) = "" THEN <<>> ELSE <<expandHome(TrimSpace(Head(parts)))>>)
             \o TrimmedNonEmpty(Tail(parts))

splitAndTrim(csv) ==
    IF TrimSpace(csv) = "" THEN <<>> ELSE TrimmedNonEmpty(Split(csv, ","))

\* filepath.Dir and filepath.Join of clean paths.
RECURSIVE LastSlash(_)
LastSlash(p) ==
    IF p = "" THEN 0 ELSE IF Char(p, Len(p)) = "/" THEN Len(p) ELSE LastSlash(SubSeq(p, 1, Len(p) - 1))

Dir(path) ==
    IF LastSlash(path) = 0 THEN "."
    ELSE IF LastSlash(path) = 1 THEN "/"
    ELSE SubSeq(path, 1, LastSlash(path) - 1)

Join(a, b) == IF a = "" THEN b ELSE IF b = "" THEN a ELSE TrimRightChar(a, "/") \o "/" \o b

OutsideTmux      == TrimSpace(Getenv("TMUX")) = ""
ExplicitIntent   == TrimSpace(flags.ProjectName) # "" \/ TrimSpace(flags.SpecPath) # ""
Bootstrapped     == TrimSpace(Getenv("TMUX_SESSION_MANAGER_BOOTSTRAPPED")) # ""

\* Fault: bootstrap taken as enabled whatever the flag and the environment say.
BootstrapAlwaysEnabled == TRUE

BootstrapEnabled ==
    flags.Bootstrap \/ parseEnvBool("TMUX_SESSION_MANAGER_BOOTSTRAP", FALSE)

InitSessionName == "__tsm_init__"

\* The tmux argv of the bootstrapper: an init session whose shell re-runs the
\* program inside tmux.
BootstrapArgv ==
    LET sh     == IF TrimSpace(Getenv("SHELL")) = "" THEN "sh" ELSE Getenv("SHELL")
        inner  == flags.args \o <<"--bootstrap-init-session", InitSessionName>>
        cmdStr == "export TMUX_SESSION_MANAGER_BOOTSTRAPPED=1; "
                      \o mainShellQuote("/bin/tsm") \o " " \o mainShellJoin(inner)
                      \o "; exec " \o mainShellQuote(sh)
    IN  <<"new-session", "-A", "-s", InitSessionName, "-c", ".", "--", sh, "-lc", cmdStr>>

\* main up to the end of the outside-tmux bootstrap block.
MainBootstrap ==
    /\ pc = "main"
    /\ environ' = IF TrimSpace(flags.BootstrapInitSession) # ""
                      /\ TrimSpace(Getenv("TMUX_SESSION_MANAGER_INIT_SESSION")) = ""
                  THEN ("TMUX_SESSION_MANAGER_INIT_SESSION" :> TrimSpace(flags.BootstrapInitSession))
                           @@ environ
                  ELSE environ
    /\ IF flags.KeyBind # "" THEN pc' = "exit0" /\ execs' = execs
       ELSE IF OutsideTmux /\ ExplicitIntent /\ ~Bootstrapped
            THEN IF BootstrapEnabled
                 THEN \E self \in BOOLEAN, r \in RunResults :
                         IF ~self THEN pc' = "resolve" /\ execs' = execs
                         ELSE /\ execs' = Append(execs, BootstrapArgv)
                              /\ pc' = IF r = NoErr THEN "exit0" ELSE "resolve"
                 ELSE pc' = "exit1" /\ execs' = execs
       ELSE pc' = "resolve" /\ execs' = execs
    /\ UNCHANGED <<specIn, loaded, opt, policy, context, tpl, compiled, dryRun, runnerNil,
                   idx, calls, handled, err, lines, now, wait, flags,
                   tui>>

\* --project: the first spec file that exists under the roots.
SpecFileNames == <<".tmux-session.yaml", ".tmux-session.yml", ".tmux-session.json">>

ProjectRoots ==
    IF splitAndTrim(Getenv("TMUX_SESSION_MANAGER_ROOTS")) # <<>>
    THEN splitAndTrim(Getenv("TMUX_SESSION_MANAGER_ROOTS"))
    ELSE IF splitAndTrim(flags.Roots) # <<>> THEN splitAndTrim(flags.Roots)
    ELSE <<Join(Getenv("HOME"), "code"), Join(Getenv("HOME"), "src"),
           Join(Getenv("HOME"), "projects")>>

RECURSIVE FirstExisting(_, _)
FirstExisting(paths, files) ==
    IF paths = <<>> THEN ""
    ELSE IF Head(paths) \in files THEN Head(paths) ELSE FirstExisting(Tail(paths), files)

ProjectCandidates(project) ==
    LET roots == ProjectRoots
    IN  [k \in 1..(Len(roots) * Len(SpecFileNames)) |->
            Join(Join(expandHome(roots[((k - 1) \div Len(SpecFileNames)) + 1]), project),
                 SpecFileNames[((k - 1) % Len(SpecFileNames)) + 1])]

\* The sets of spec files the file system may hold.
FileSystems == {{}, {"/home/u/src/demo/.tmux-session.yml", "/home/u/projects/demo/.tmux-session.yaml"}}

MainResolveProject ==
    /\ pc = "resolve"
    /\ IF TrimSpace(flags.ProjectName) # "" /\ TrimSpace(flags.SpecPath) = ""
       THEN \E files \in FileSystems :
               LET project  == TrimSpace(flags.ProjectName)
                   resolved == FirstExisting(ProjectCandidates(project), files)
               IN  IF resolved = "" THEN pc' = "exit1" /\ flags' = flags
                   ELSE /\ pc' = "precheck"
                        /\ flags' = [flags EXCEPT
                               !.SpecPath = resolved,
                               !.SpecCwd = IF TrimSpace(@) = "" THEN Dir(resolved) ELSE @,
                               !.SpecSession = IF TrimSpace(@) = "" THEN project ELSE @]
       ELSE /\ pc' = IF TrimSpace(flags.SpecPath) # "" THEN "precheck" ELSE "tui"
            /\ flags' = flags
    /\ UNCHANGED <<specIn, loaded, opt, policy, context, tpl, compiled, dryRun, runnerNil,
                   idx, calls, handled, err, lines, now, wait, environ, execs,
                   tui>>

MainSpecCwd ==
    LET given == TrimSpace(flags.SpecCwd)
    IN  expandHome(IF given = "" THEN Dir(expandHome(flags.SpecPath)) ELSE given)

MainSessionName ==
    IF TrimSpace(flags.SpecSession) # "" THEN TrimSpace(flags.SpecSession)
    ELSE TrimSpace(Base(TrimRightChar(MainSpecCwd, "/")))

\* The Engine policy of ApplySpecFile: NewEngine() with the two flags set.
ApplyEnginePolicy(o) ==
    [DefaultPolicy EXCEPT !.AllowShell = o.AllowShell,
                          !.AllowTmuxPassthrough = o.AllowTmuxPassthrough]

\* The options main hands to ApplySpecFile.
MainApplyOptions ==
    [Mode |-> "apply", ProjectPath |-> MainSpecCwd, ProjectName |-> "",
     SessionName |-> MainSessionName,
     AllowShell |-> parseEnvBool("TMUX_SESSION_MANAGER_ALLOW_SHELL", flags.AllowShell),
     AllowTmuxPassthrough |->
         parseEnvBool("TMUX_SESSION_MANAGER_ALLOW_TMUX_PASSTHROUGH", flags.AllowTmuxPassthrough),
     IncludeEnsureSession |-> FALSE, DryRun |-> flags.DryRun,
     AllowedTmuxCommands |-> {}, DisallowTmuxCommands |-> Nil]

\* Spec apply mode from spec.LoadFile to the call of ApplySpecFile: the session
\* is looked up, and created when tmux does not know it.
MainPrecheck ==
    /\ pc = "precheck"
    /\ IF Validate(specIn) # NoErr \/ MainSessionName = ""
       THEN pc' = "exit1" /\ UNCHANGED <<execs, opt, policy>>
       ELSE /\ pc' = "load"
            /\ opt' = MainApplyOptions
            /\ policy' = ApplyEnginePolicy(MainApplyOptions)
            /\ IF OutsideTmux THEN execs' = execs
               ELSE \E has \in RunResults :
                       execs' = execs \o <<<<"has-session", "-t", MainSessionName>>>>
                                  \o (IF has = NoErr THEN <<>>
                                      ELSE <<<<"new-session", "-d", "-s", MainSessionName,
                                               "-c", MainSpecCwd>>>>)
    /\ UNCHANGED <<specIn, loaded, context, tpl, compiled, dryRun, runnerNil,
                   idx, calls, handled, err, lines, now, wait, environ, flags,
                   tui>>

\* What tmux may answer about the window at the base index.
BaseIndexes     == {0, 1}
BaseWindowNames == {"", "zsh", "main"}

SpecWindowNames ==
    {TrimSpace(specIn.Windows[i].Name) : i \in 1..Len(specIn.Windows)} \ {""}

ServerGone(msg) ==
    \/ Contains(msg, "no server running") \/ Contains(msg, "server exited")
    \/ Contains(msg, "lost server")

ShouldAttach ==
    IF specIn.Session.Attach # Nil THEN specIn.Session.Attach[1] ELSE TRUE
ShouldSwitchClient ==
    IF specIn.Session.SwitchClient # Nil THEN specIn.Session.SwitchClient[1] ELSE TRUE

\* The default-window cleanup of a real run.
CleanupExecs(base, name) ==
    LET win == MainSessionName \o ":" \o Itoa(base)
    IN  <<<<"show-option", "-gqv", "base-index">>,
          <<"display-message", "-p", "-t", win, "#{window_name}">>>>
            \o (IF name # "" /\ name \notin SpecWindowNames
                THEN <<<<"kill-window", "-t", win>>>> ELSE <<>>)

\* The attach/switch block at the end of a real run.
AttachExecs(sw) ==
    IF ~ShouldAttach \/ OutsideTmux THEN <<>>
    ELSE (IF ShouldSwitchClient THEN <<<<"switch-client", "-t", MainSessionName>>>> ELSE <<>>)
             \o (IF ShouldSwitchClient /\ sw # NoErr THEN <<>>
                 ELSE LET init == TrimSpace(Getenv("TMUX_SESSION_MANAGER_INIT_SESSION"))
                      IN  IF init # "" /\ init # MainSessionName
                          THEN <<<<"kill-session", "-t", init>>>> ELSE <<>>)

\* Spec apply mode after ApplySpecFile returned.
MainAfterApply ==
    /\ flags.main
    /\ pc \in {"returned", "failed"}
    /\ IF err # NoErr
       THEN pc' = (IF ServerGone(err) THEN "exit0" ELSE "exit1") /\ execs' = execs
       ELSE IF flags.DryRun THEN pc' = "exit0" /\ execs' = execs
       ELSE \E base \in BaseIndexes, name \in BaseWindowNames, sw \in RunResults :
               /\ execs' = execs \o CleanupExecs(base, name) \o AttachExecs(sw)
               /\ pc' = IF ShouldAttach /\ ~OutsideTmux /\ ShouldSwitchClient /\ sw # NoErr
                        THEN "exit1" ELSE "exit0"
    /\ UNCHANGED <<specIn, loaded, opt, policy, context, tpl, compiled, dryRun, runnerNil,
                   idx, calls, handled, err, lines, now, wait, environ, flags,
                   tui>>

(***************************************************************************)
(* package manager: the selector TUI (model.Update and what it calls).     *)
(* tui.server is the set of session names of the tmux server, tui.m the    *)
(* bubbletea model, tui.last the key of the latest Update call with the    *)
(* tmux commands it ran, tui.armed the session that was selected when d    *)
(* opened the kill confirmation. Scroll position, help and preview toggles *)
(* and the window size are left out.                                       *)
(***************************************************************************)
\* Byte order of the characters session names are made of.
ByteOrder == "-/0123456789ABCDEFGHIJKLMNOPQRSTUVWXYZ_abcdefghijklmnopqrstuvwxyz"

RECURSIVE StrLess(_, _)
StrLess(a, b) ==
    IF b = "" THEN FALSE
    ELSE IF a = "" THEN TRUE
    ELSE IF Head(a) = Head(b) THEN StrLess(Tail(a), Tail(b))
    ELSE Index(ByteOrder, Char(a, 1)) < Index(ByteOrder, Char(b, 1))

\* sort.Slice by name
RECURSIVE SortNames(_)
SortNames(S) ==
    IF S = {} THEN <<>>
    ELSE LET least == CHOOSE x \in S : \A y \in S \ {x} : StrLess(x, y)
         IN  <<least>> \o SortNames(S \ {least})

\* tmuxListSessions: the names of the server's sessions, sorted; an error of
\* tmux (no server, no session) leaves m.sessions nil.
tmuxListSessions(server) == SortNames(server)

RECURSIVE fuzzyContains(_, _)
fuzzyContains(hay, needle) ==
    IF needle = "" THEN TRUE
    ELSE IF hay = "" THEN FALSE
    ELSE IF Head(hay) = Head(needle) THEN fuzzyContains(Tail(hay), Tail(needle))
    ELSE fuzzyContains(Tail(hay), needle)

clampInt(v, lo, hi) == IF v < lo THEN lo ELSE IF v > hi THEN hi ELSE v

dropLastRune(s) == IF s = "" THEN s ELSE SubSeq(s, 1, Len(s) - 1)

setStatus(m, s) == [m EXCEPT !.status = s]

currentListLen(m) ==
    IF m.mode = "projects" THEN Len(m.filteredProjects) ELSE Len(m.filteredSessions)

currentSessionName(m) ==
    IF m.mode # "sessions" THEN ""
    ELSE IF m.selected < 0 \/ m.selected >= Len(m.filteredSessions) THEN ""
    ELSE m.filteredSessions[m.selected + 1]

NoProject == [Name |-> "", Path |-> ""]
currentProject(m) ==
    IF m.mode # "projects" THEN NoProject
    ELSE IF m.selected < 0 \/ m.selected >= Len(m.filteredProjects) THEN NoProject
    ELSE m.filteredProjects[m.selected + 1]

recomputeFilter(m) ==
    LET q == TrimSpace(m.query)
        f == [m EXCEPT
                 !.filteredSessions =
                     IF q = "" THEN m.sessions
                     ELSE SelectSeq(m.sessions,
                                    LAMBDA s : fuzzyContains(ToLower(s), ToLower(q))),
                 !.filteredProjects =
                     IF q = "" THEN m.projects
                     ELSE SelectSeq(m.projects,
                                    LAMBDA p : fuzzyContains(ToLower(p.Name \o " " \o p.Path),
                                                             ToLower(q)))]
    IN  IF currentListLen(f) <= 0 THEN [f EXCEPT !.selected = 0]
        ELSE [f EXCEPT !.selected = clampInt(f.selected, 0, currentListLen(f) - 1)]

refreshSessions(m, server) == [m EXCEPT !.sessions = tmuxListSessions(server)]

move(m, delta) ==
    IF currentListLen(m) <= 0 THEN [m EXCEPT !.selected = 0]
    ELSE [m EXCEPT !.selected = clampInt(m.selected + delta, 0, currentListLen(m) - 1)]

gotoTop(m) == [m EXCEPT !.selected = 0]

gotoBottom(m) ==
    IF currentListLen(m) <= 0 THEN [m EXCEPT !.selected = 0]
    ELSE [m EXCEPT !.selected = currentListLen(m) - 1]

\* templateKind.String
TemplateNames == <<"empty", "node", "python", "go">>

\* newModel: UIOptions.DefaultTemplate is left empty (tplEmpty).
newModel(opts, server, projects) ==
    recomputeFilter(
        [opts |-> opts, mode |-> "sessions",
         sessions |-> tmuxListSessions(server), projects |-> projects,
         filteredSessions |-> <<>>, filteredProjects |-> <<>>,
         selected |-> 0, focused |-> FALSE, query |-> "",
         confirmKill |-> FALSE, renameMode |-> FALSE, newMode |-> FALSE,
         renameValue |-> "", newValue |-> "", template |-> 0, pendingG |-> FALSE,
         status |-> "", quitting |-> FALSE])

\* exec.Command("tmux", argv...).Run() on the server: ok tells whether tmux
\* exits with 0; allow is what everything but the named sessions decides.
TmuxRun(server, argv, allow) ==
    CASE argv[1] = "new-session" ->
             LET ok == allow /\ argv[4] \notin server
             IN  [ok |-> ok, server |-> IF ok THEN server \cup {argv[4]} ELSE server]
      [] argv[1] = "kill-session" ->
             LET ok == allow /\ argv[3] \in server
             IN  [ok |-> ok, server |-> IF ok THEN server \ {argv[3]} ELSE server]
      [] argv[1] = "rename-session" ->
             LET ok == allow /\ argv[3] \in server /\ argv[4] \notin server
             IN  [ok |-> ok,
                  server |-> IF ok THEN (server \ {argv[3]}) \cup {argv[4]} ELSE server]
      [] argv[1] = "switch-client" ->
             [ok |-> allow /\ argv[3] \in server, server |-> server]
      [] OTHER -> [ok |-> allow, server |-> server]

tmuxHasSession(server, name) == TrimSpace(name) # "" /\ name \in server

tmuxNewSessionDetached(name, dir) ==
    <<"new-session", "-d", "-s", name>>
        \o (IF TrimSpace(dir) # "" THEN <<"-c", dir>> ELSE <<>>)
tmuxSwitchClient(name) == <<"switch-client", "-t", name>>
tmuxKillSession(name) == <<"kill-session", "-t", name>>
tmuxRenameSession(from, to) == <<"rename-session", "-t", from, to>>

\* What one call of a handler leaves: the model, the server, the tmux
\* commands it ran with their outcome, and whether it returned tea.Quit.
Out(m, server, ran, quit) == [m |-> m, server |-> server, ran |-> ran, quit |-> quit]
Ran(argv, ok) == [argv |-> argv, ok |-> ok]
ExecErr == "exit status 1"

handlePromptKeys(m, server, key, res) ==
    CASE key = "esc" ->
             Out(setStatus([m EXCEPT !.renameMode = FALSE, !.newMode = FALSE,
                                     !.renameValue = "", !.newValue = "",
                                     !.focused = FALSE], "cancelled"),
                 server, <<>>, FALSE)
      [] key = "enter" /\ m.renameMode ->
             Let(TrimSpace(m.renameValue), LAMBDA name :
             Let(currentSessionName(m), LAMBDA cur :
                 IF name = "" THEN Out(setStatus(m, "rename: empty name"), server, <<>>, FALSE)
                 ELSE IF cur = ""
                      THEN Out(setStatus(m, "rename: no session selected"), server, <<>>, FALSE)
                 ELSE Let(TmuxRun(server, tmuxRenameSession(cur, name), res[1]), LAMBDA r :
                          IF ~r.ok
                          THEN Out(setStatus(m, "rename failed: " \o ExecErr), server,
                                   <<Ran(tmuxRenameSession(cur, name), FALSE)>>, FALSE)
                          ELSE Out(setStatus(
                                       recomputeFilter(refreshSessions(
                                           [m EXCEPT !.renameMode = FALSE,
                                                     !.renameValue = ""], r.server)),
                                       "renamed " \o cur \o " -> " \o name),
                                   r.server, <<Ran(tmuxRenameSession(cur, name), TRUE)>>,
                                   FALSE))))
      [] key = "enter" /\ ~m.renameMode /\ m.newMode ->
             Let(TrimSpace(m.newValue), LAMBDA name :
                 IF name = "" THEN Out(setStatus(m, "new: empty name"), server, <<>>, FALSE)
                 ELSE
                 Let(TmuxRun(server, tmuxNewSessionDetached(name, ""), res[1]), LAMBDA r :
                     IF ~r.ok
                     THEN Out(setStatus(m, "new failed: " \o ExecErr), server,
                              <<Ran(tmuxNewSessionDetached(name, ""), FALSE)>>, FALSE)
                     ELSE
                     Let(TmuxRun(r.server, tmuxSwitchClient(name), res[2]), LAMBDA sw :
                         IF ~sw.ok
                         THEN Out(setStatus(m, "switch failed: " \o ExecErr), r.server,
                                  <<Ran(tmuxNewSessionDetached(name, ""), TRUE),
                                    Ran(tmuxSwitchClient(name), FALSE)>>, FALSE)
                         ELSE Out(setStatus(
                                      recomputeFilter(refreshSessions(
                                          [m EXCEPT !.newMode = FALSE, !.newValue = ""],
                                          r.server)),
                                      "created " \o name),
                                  r.server,
                                  <<Ran(tmuxNewSessionDetached(name, ""), TRUE),
                                    Ran(tmuxSwitchClient(name), TRUE)>>, TRUE))))
      [] key = "backspace" ->
             Out(IF m.renameMode THEN [m EXCEPT !.renameValue = dropLastRune(@)]
                 ELSE IF m.newMode THEN [m EXCEPT !.newValue = dropLastRune(@)]
                 ELSE m, server, <<>>, FALSE)
      [] key \notin {"esc", "enter", "backspace"} /\ Len(key) = 1 ->
             Out(IF m.renameMode THEN [m EXCEPT !.renameValue = @ \o key]
                 ELSE IF m.newMode THEN [m EXCEPT !.newValue = @ \o key]
                 ELSE m, server, <<>>, FALSE)
      [] OTHER -> Out(m, server, <<>>, FALSE)

\* Fault: a confirmation that kills on any key but the cancelling ones.
handleConfirmKeysEager(m, server, key, res) ==
    IF key \in {"n", "N", "esc", "q"}
    THEN Out(setStatus([m EXCEPT !.confirmKill = FALSE], "cancelled"), server, <<>>, FALSE)
    ELSE Let(currentSessionName(m), LAMBDA name :
         Let(TmuxRun(server, tmuxKillSession(name), res[1]), LAMBDA r :
             Out(setStatus(recomputeFilter(refreshSessions(
                               [m EXCEPT !.confirmKill = FALSE], r.server)),
                           "killed " \o name),
                 r.server, <<Ran(tmuxKillSession(name), r.ok)>>, FALSE)))

handleConfirmKeys(m, server, key, res) ==
    CASE key \in {"y", "Y"} ->
             Let(currentSessionName(m), LAMBDA name :
                 IF name = ""
                 THEN Out(setStatus([m EXCEPT !.confirmKill = FALSE],
                                    "kill: no session selected"), server, <<>>, FALSE)
                 ELSE
                 Let(TmuxRun(server, tmuxKillSession(name), res[1]), LAMBDA r :
                     IF ~r.ok
                     THEN Out(setStatus([m EXCEPT !.confirmKill = FALSE],
                                        "kill failed: " \o ExecErr),
                              server, <<Ran(tmuxKillSession(name), FALSE)>>, FALSE)
                     ELSE
                     Let(recomputeFilter(refreshSessions([m EXCEPT !.confirmKill = FALSE],
                                                         r.server)),
                         LAMBDA f :
                         Out(setStatus([f EXCEPT !.selected =
                                           clampInt(f.selected, 0, currentListLen(f) - 1)],
                                       "killed " \o name),
                             r.server, <<Ran(tmuxKillSession(name), TRUE)>>, FALSE))))
      [] key \in {"n", "N", "esc", "q"} ->
             Out(setStatus([m EXCEPT !.confirmKill = FALSE], "cancelled"),
                 server, <<>>, FALSE)
      [] OTHER -> Out(m, server, <<>>, FALSE)

\* What the project's directory holds for spec.LoadProjectLocalWithNames and
\* the pipeline behind it: no spec file, one that compiles, one that does not.
ProjectSpecKinds == {"none", "ok", "bad"}

\* The commands of applyTemplate (a node project without lockfiles).
applyTemplate(sessionName, dir, template) ==
    IF template = 0 THEN <<>>
    ELSE <<<<"rename-window", "-t", sessionName \o ":", "editor">>,
           <<"split-window", "-t", sessionName \o ":editor", "-h", "-c", dir>>,
           <<"new-window", "-t", sessionName, "-n",
             IF template = 1 THEN "server" ELSE IF template = 2 THEN "repl" ELSE "run", "-c", dir>>>>
         \o (IF template = 2
             THEN <<<<"send-keys", "-t", sessionName \o ":repl", "python", "Enter">>>>
             ELSE IF template = 3
                  THEN <<<<"send-keys", "-t", sessionName \o ":run", "go test ./...",
                           "Enter">>>>
             ELSE <<>>)

\* eng.Execute(compiled, false) on the project's spec, seen as one step.
ExecutePlanOf(sessionName) == <<"execute-plan", "-t", sessionName>>

projectAccept(m, server, kind, res) ==
    Let(currentProject(m), LAMBDA prj :
        IF prj.Path = "" THEN Out(setStatus(m, "no project selected"), server, <<>>, FALSE)
        ELSE
        Let(IF sanitizeSessionName(prj.Name) = "" THEN "project"
            ELSE sanitizeSessionName(prj.Name), LAMBDA sessionName :
        Let(tmuxHasSession(server, sessionName), LAMBDA exists :
        Let(m.opts.PreferProjectSpec /\ kind = "ok", LAMBDA specUsable :
            IF ~exists /\ m.opts.DryRun
            THEN Out(setStatus(m,
                         IF m.opts.PreferProjectSpec /\ kind = "bad"
                         THEN "dry-run: spec load failed"
                         ELSE IF specUsable
                              THEN "dry-run: would create session " \o sessionName
                                       \o " from spec"
                         ELSE "dry-run: would create session " \o sessionName
                                  \o " using template " \o TemplateNames[m.template + 1]),
                     server, <<>>, FALSE)
            ELSE
            Let(IF exists THEN [ok |-> TRUE, server |-> server]
                ELSE TmuxRun(server, tmuxNewSessionDetached(sessionName, prj.Path), res[1]),
                LAMBDA r :
                IF ~r.ok
                THEN Out(setStatus(m, "create failed: " \o ExecErr), server,
                         <<Ran(tmuxNewSessionDetached(sessionName, prj.Path), FALSE)>>, FALSE)
                ELSE
                Let(IF exists THEN <<>>
                    ELSE <<Ran(tmuxNewSessionDetached(sessionName, prj.Path), TRUE)>>
                         \o (IF specUsable
                             THEN <<Ran(ExecutePlanOf(sessionName), res[2])>> ELSE <<>>)
                         \o (IF specUsable /\ res[2] THEN <<>>
                             ELSE [i \in 1..Len(applyTemplate(sessionName, prj.Path,
                                                              m.template)) |->
                                      Ran(applyTemplate(sessionName, prj.Path,
                                                        m.template)[i], TRUE)]),
                    LAMBDA created :
                    IF m.opts.DryRun
                    THEN Out(setStatus(m, "dry-run: would switch to " \o sessionName),
                             r.server, created, FALSE)
                    ELSE
                    Let(TmuxRun(r.server, tmuxSwitchClient(sessionName), res[3]), LAMBDA sw :
                        IF ~sw.ok
                        THEN Out(setStatus(m, "switch failed: " \o ExecErr), r.server,
                                 created \o <<Ran(tmuxSwitchClient(sessionName), FALSE)>>,
                                 FALSE)
                        ELSE Out(setStatus(m, "switched to " \o sessionName), r.server,
                                 created \o <<Ran(tmuxSwitchClient(sessionName), TRUE)>>,
                                 TRUE))))))))

accept(m, server, kind, res) ==
    IF m.mode = "projects" THEN projectAccept(m, server, kind, res)
    ELSE
    Let(currentSessionName(m), LAMBDA name :
        IF name = ""
        THEN Let(TrimSpace(m.query), LAMBDA q :
             Let(sanitizeSessionName(q), LAMBDA newName :
                 IF q = "" THEN Out(setStatus(m, "no session selected"), server, <<>>, FALSE)
                 ELSE IF newName = ""
                      THEN Out(setStatus(m, "new: invalid name"), server, <<>>, FALSE)
                 ELSE
                 Let(IF tmuxHasSession(server, newName) THEN [ok |-> TRUE, server |-> server]
                     ELSE TmuxRun(server, tmuxNewSessionDetached(newName, ""), res[1]),
                     LAMBDA r :
                 Let(IF tmuxHasSession(server, newName) THEN <<>>
                     ELSE <<Ran(tmuxNewSessionDetached(newName, ""), r.ok)>>, LAMBDA created :
                     IF ~r.ok
                     THEN Out(setStatus(m, "new failed: " \o ExecErr), server, created, FALSE)
                     ELSE
                     Let(TmuxRun(r.server, tmuxSwitchClient(newName), res[2]), LAMBDA sw :
                         Out(setStatus(m, IF sw.ok THEN "switched to " \o newName
                                          ELSE "switch failed: " \o ExecErr),
                             r.server,
                             created \o <<Ran(tmuxSwitchClient(newName), sw.ok)>>,
                             sw.ok))))))
        ELSE Let(TmuxRun(server, tmuxSwitchClient(name), res[1]), LAMBDA sw :
                 Out(setStatus(m, IF sw.ok THEN "switched to " \o name
                                  ELSE "switch failed: " \o ExecErr),
                     server, <<Ran(tmuxSwitchClient(name), sw.ok)>>, sw.ok)))

\* The directory of the current pane, as tmux display-message reports it.
CurrentPaneDir == "/w/demo"

\* makeUniqueSessionName with the names the server holds.
makeUniqueSessionName(server, base) ==
    IF ~tmuxHasSession(server, base) THEN base
    ELSE IF ~tmuxHasSession(server, base \o "_2") THEN base \o "_2"
    ELSE base \o "_3"

\* editNewSessionInCurrentDir, with no current session to snapshot and the
\* default editor; res[1] tells whether tmux reported the current pane's
\* directory.
editNewSessionInCurrentDir(m, server, res) ==
    IF ~res[1] THEN Out(setStatus(m, "edit: could not determine current dir"),
                        server, <<>>, FALSE)
    ELSE
    Let(makeUniqueSessionName(server, sanitizeSessionName(Base(CurrentPaneDir))),
        LAMBDA newName :
    Let(TmuxRun(server, tmuxNewSessionDetached(newName, CurrentPaneDir), res[2]), LAMBDA r :
        IF ~r.ok
        THEN Out(setStatus(m, "edit: create failed: " \o ExecErr), server,
                 <<Ran(tmuxNewSessionDetached(newName, CurrentPaneDir), FALSE)>>, FALSE)
        ELSE
        Let(TmuxRun(r.server, tmuxSwitchClient(newName), res[3]), LAMBDA sw :
            Out(setStatus(m, IF sw.ok THEN "edit: created " \o newName
                             ELSE "edit: switch failed: " \o ExecErr),
                r.server,
                <<Ran(tmuxNewSessionDetached(newName, CurrentPaneDir), TRUE),
                  Ran(<<"send-keys", "-t", newName \o ":", "nvim .", "Enter">>, TRUE),
                  Ran(tmuxSwitchClient(newName), sw.ok)>>, sw.ok))))

\* The mode keys of handleGlobalKeys, the same with and without the search focused.
ToggleMode(m, to) ==
    setStatus(recomputeFilter([m EXCEPT !.mode = to, !.selected = 0]), "mode: " \o to)

ModeKey(m, key) ==
    CASE key \in {"tab", "ctrl+t"} ->
             ToggleMode(m, IF m.mode = "sessions" THEN "projects" ELSE "sessions")
      [] key = "ctrl+p" -> IF m.mode # "projects" THEN ToggleMode(m, "projects") ELSE m
      [] key = "ctrl+o" -> IF m.mode # "sessions" THEN ToggleMode(m, "sessions") ELSE m

\* handleGlobalKeys; inTime tells whether a second g came within ggTimeout.
handleGlobalKeys(m, server, kind, key, res, inTime) ==
    IF m.focused
    THEN CASE key = "esc" -> Out(setStatus([m EXCEPT !.focused = FALSE], "search: off"),
                                 server, <<>>, FALSE)
           [] key = "enter" -> accept([m EXCEPT !.focused = FALSE], server, kind, res)
           [] key \in {"tab", "ctrl+t", "ctrl+p", "ctrl+o"} ->
                  Out(ModeKey(m, key), server, <<>>, FALSE)
           [] key = "q" -> Out([m EXCEPT !.quitting = TRUE], server, <<>>, TRUE)
           [] key \in {"?", "h", "p"} -> Out(m, server, <<>>, FALSE)
           [] key = "backspace" ->
                  Out(recomputeFilter([m EXCEPT !.query = dropLastRune(@)]),
                      server, <<>>, FALSE)
           [] OTHER ->
                  Out(IF Len(key) = 1 THEN recomputeFilter([m EXCEPT !.query = @ \o key])
                      ELSE recomputeFilter(m), server, <<>>, FALSE)
    ELSE
    Let([m EXCEPT !.pendingG = @ /\ inTime], LAMBDA g :
    CASE key = "q" -> Out([g EXCEPT !.quitting = TRUE], server, <<>>, TRUE)
      [] key \in {"?", "h", "p"} -> Out(g, server, <<>>, FALSE)
      [] key = "/" -> Out(setStatus([g EXCEPT !.focused = TRUE], "search: on"),
                          server, <<>>, FALSE)
      [] key \in {"tab", "ctrl+t", "ctrl+p", "ctrl+o"} ->
             Out(ModeKey(g, key), server, <<>>, FALSE)
      [] key \in {"j", "down"} -> Out(move(g, 1), server, <<>>, FALSE)
      [] key \in {"k", "up"} -> Out(move(g, -1), server, <<>>, FALSE)
      [] key = "G" -> Out(gotoBottom(g), server, <<>>, FALSE)
      [] key = "g" ->
             Out(IF g.pendingG THEN gotoTop([g EXCEPT !.pendingG = FALSE])
                 ELSE [g EXCEPT !.pendingG = TRUE], server, <<>>, FALSE)
      [] key = "enter" -> accept(g, server, kind, res)
      [] key = "r" ->
             Out(IF g.mode # "sessions" THEN setStatus(g, "rename: sessions mode only")
                 ELSE IF currentSessionName(g) = ""
                      THEN setStatus(g, "rename: no session selected")
                 ELSE [g EXCEPT !.renameMode = TRUE, !.renameValue = ""],
                 server, <<>>, FALSE)
      [] key = "n" ->
             Out(IF g.mode # "sessions" THEN setStatus(g, "new: sessions mode only")
                 ELSE [g EXCEPT !.newMode = TRUE, !.newValue = ""], server, <<>>, FALSE)
      [] key = "d" ->
             Out(IF g.mode # "sessions" THEN setStatus(g, "kill: sessions mode only")
                 ELSE IF currentSessionName(g) = ""
                      THEN setStatus(g, "kill: no session selected")
                 ELSE [g EXCEPT !.confirmKill = TRUE], server, <<>>, FALSE)
      [] key = "e" -> editNewSessionInCurrentDir(g, server, res)
      [] key = "t" ->
             Out(setStatus([g EXCEPT !.template = (@ + 1) % 4],
                           "template: " \o TemplateNames[((g.template + 1) % 4) + 1]),
                 server, <<>>, FALSE)
      [] key = "w" ->
             IF g.mode # "projects"
             THEN Out(setStatus(g, "w: switch to projects mode (tab)"), server, <<>>, FALSE)
             ELSE projectAccept(g, server, kind, res)
      [] key = "R" ->
             Out(setStatus(recomputeFilter(refreshSessions(g, server)), "refreshed"),
                 server, <<>>, FALSE)
      [] OTHER -> Out(g, server, <<>>, FALSE))

\* model.Update on a key message.
Update(m, server, kind, key, res, inTime) ==
    IF m.renameMode \/ m.newMode THEN handlePromptKeys(m, server, key, res)
    ELSE IF m.confirmKill THEN handleConfirmKeys(m, server, key, res)
    ELSE handleGlobalKeys(m, server, kind, key, res, inTime)

\* The keys a user presses: the bound ones, a letter that is bound to nothing
\* and the keys of the prompts.
Keys ==
    {"q", "/", "tab", "ctrl+p", "ctrl+o", "j", "k", "G", "g", "enter", "esc", "r", "n",
     "d", "e", "t", "w", "R", "y", "Y", "N", "backspace", "a"}

\* The longest text a user types into the search and the prompts, and the
\* letter it is made of.
MaxTyped == 1
TypedRune == "a"
Typing(m, key) ==
    /\ Len(key) = 1
    /\ \/ m.renameMode /\ (key # TypedRune \/ Len(m.renameValue) >= MaxTyped)
       \/ ~m.renameMode /\ m.newMode /\ (key # TypedRune \/ Len(m.newValue) >= MaxTyped)
       \/ ~m.renameMode /\ ~m.newMode /\ ~m.confirmKill /\ m.focused
              /\ key \notin {"q", "?", "h", "p"}
              /\ (key # TypedRune \/ Len(m.query) >= MaxTyped)

\* The most sessions the server holds, and the most keys pressed in one run.
MaxSessions == 2
MaxKeys == 4

NoKey == [key |-> "", ran |-> <<>>, status |-> "", confirming |-> FALSE, armed |-> ""]
NotArmed == [key |-> "", mode |-> "", name |-> ""]
TuiIdle(server, projects, presses) ==
    [m |-> newModel([DryRun |-> FALSE, PreferProjectSpec |-> TRUE], server, projects),
     server |-> server, projects |-> projects, last |-> NoKey, armed |-> NotArmed,
     keys |-> 0, presses |-> presses]

\* RunTUI: main.go hands flagDryRun to UIOptions.DryRun; newModel lists the
\* sessions of the server.
RunTUI ==
    /\ pc = "tui"
    /\ pc' = "ui"
    /\ tui' = [tui EXCEPT !.m = newModel([DryRun |-> flags.DryRun,
                                          PreferProjectSpec |-> TRUE],
                                         tui.server, tui.projects)]
    /\ UNCHANGED <<specIn, loaded, opt, policy, context, tpl, compiled, dryRun, runnerNil,
                   idx, calls, handled, err, lines, now, wait, environ, flags, execs>>

\* One key message handled by Update; tea.Quit ends the program. tui.last
\* records a key that ran a tmux command or was pressed while the kill
\* confirmation was showing, with the status line it wrote (the status line
\* is not kept beyond that); tui.keys counts the keys, of which the user
\* presses tui.presses; tui.armed records the key that opened the
\* confirmation, the mode and the session selected at that moment.
TuiKey ==
    /\ pc = "ui"
    /\ tui.keys < tui.presses
    /\ \E key \in Keys, kind \in ProjectSpecKinds, res \in [1..3 -> BOOLEAN],
          inTime \in BOOLEAN :
           /\ ~Typing(tui.m, key)
           /\ (key # "g" \/ ~tui.m.pendingG) => inTime
           /\ (key \notin {"enter", "w"} \/ tui.m.mode # "projects") => kind = "none"
           /\ key \notin {"enter", "e", "w", "y", "Y"} => \A i \in 1..3 : res[i]
           /\ Let(Update(tui.m, tui.server, kind, key, res, inTime), LAMBDA o :
                  /\ Cardinality(o.server) <= MaxSessions
                  /\ tui' = [tui EXCEPT
                                !.m = setStatus(o.m, ""), !.server = o.server,
                                !.keys = @ + 1,
                                !.last = IF o.ran # <<>> \/ tui.m.confirmKill
                                         THEN [key |-> key, ran |-> o.ran,
                                               status |-> o.m.status,
                                               confirming |-> tui.m.confirmKill,
                                               armed |-> tui.armed.name]
                                         ELSE NoKey,
                                !.armed = IF o.m.confirmKill /\ ~tui.m.confirmKill
                                          THEN [key |-> key, mode |-> tui.m.mode,
                                                name |-> currentSessionName(tui.m)]
                                          ELSE IF ~o.m.confirmKill THEN NotArmed ELSE @]
                  /\ pc' = IF o.quit THEN "exit0" ELSE "ui")
    /\ UNCHANGED <<specIn, loaded, opt, policy, context, tpl, compiled, dryRun, runnerNil,
                   idx, calls, handled, err, lines, now, wait, environ, flags, execs>>

\* Another client of the server kills one of its sessions.
ServerLosesSession ==
    /\ pc = "ui"
    /\ \E s \in tui.server : tui' = [tui EXCEPT !.server = @ \ {s}, !.last = NoKey]
    /\ UNCHANGED <<pc, specIn, loaded, opt, policy, context, tpl, compiled, dryRun,
                   runnerNil, idx, calls, handled, err, lines, now, wait, environ, flags,
                   execs>>

(***************************************************************************)
(* Inputs: spec documents, options, policies, hand-built plans             *)
(***************************************************************************)
NoTarget == [Session |-> "", Window |-> "", Pane |-> ""]

\* The zero value of spec.Action.
ZeroSpecAction ==
    [Type |-> "", Target |-> NoTarget, Tmux |-> Nil, Run |-> Nil, SendKeys |-> Nil,
     Shell |-> Nil, Sleep |-> Nil, Watch |-> Nil, WaitForPrompt |-> Nil,
     SshManagerConnect |-> Nil, IgnoreError |-> FALSE]

ShellAct(cmd) == [ZeroSpecAction EXCEPT !.Type = "shell",
                                        !.Shell = Some([Cmd |-> cmd, Shell |-> ""])]
TmuxAct(name, args) == [ZeroSpecAction EXCEPT !.Type = "tmux",
                                              !.Tmux = Some([Name |-> name, Args |-> args])]
RunAct(program, args) ==
    [ZeroSpecAction EXCEPT !.Type = "run",
                           !.Run = Some([Program |-> program, Args |-> args, Enter |-> Nil])]
SendKeysAct(keys, enter) ==
    [ZeroSpecAction EXCEPT !.Type = "send_keys",
                           !.SendKeys = Some([Keys |-> keys, Enter |-> enter])]
SleepAct(ms) == [ZeroSpecAction EXCEPT !.Type = "sleep",
                                       !.Sleep = Some([Milliseconds |-> ms])]
WaitAct(timeoutMS, minQuietMS, settleMS) ==
    [ZeroSpecAction EXCEPT !.Type = "wait_for_prompt",
                           !.WaitForPrompt = Some([TimeoutMS |-> timeoutMS,
                                                   MinQuietMS |-> minQuietMS,
                                                   SettleMS |-> settleMS,
                                                   PromptRegex |-> "", MaxLines |-> 0])]
SshAct(host, user, mode) ==
    [ZeroSpecAction EXCEPT !.Type = "ssh_manager_connect",
                           !.SshManagerConnect = Some([Host |-> host, User |-> user,
                                                       Port |-> 0, LoginMode |-> mode,
                                                       ConnectTimeoutMS |-> 0])]
IgnoringErrors(a) == [a EXCEPT !.IgnoreError = TRUE]

\* The zero values of spec.Pane, spec.Window, spec.Spec.
ZeroPane == [Name |-> "", Root |-> "", Focus |-> FALSE, Actions |-> <<>>, Command |-> ""]
ZeroWindow ==
    [Name |-> "", Root |-> "", Layout |-> "", Focus |-> FALSE, FocusPane |-> "",
     Panes |-> <<>>, PanePlan |-> <<>>, Actions |-> <<>>]
ZeroSpec ==
    [Version |-> 0, Name |-> "",
     Session |-> [Name |-> "", Prefix |-> "", Root |-> "", Attach |-> Nil,
                  SwitchClient |-> Nil, BaseIndex |-> Nil,
                  PaneBaseIndex |-> Nil, FocusWindow |-> ""],
     Env |-> NoEnv, Windows |-> <<>>, Actions |-> <<>>]

PaneStep(p) == [Pane |-> Some(p), Split |-> Nil]
SplitStep(direction, size) ==
    [Pane |-> Nil, Split |-> Some([Direction |-> direction, Size |-> size])]

ActionsSpec(actions) == [ZeroSpec EXCEPT !.Version = 1, !.Actions = actions]
WindowsSpec(windows) == [ZeroSpec EXCEPT !.Version = 1, !.Windows = windows]
Window(name) == [ZeroWindow EXCEPT !.Name = name]

\* Subcommand names a passthrough action of the inputs may carry.
MuxNames == {"new-window", "break-pane", "run-shell", "source-file", "set-window-option"}

\* Specs with one passthrough action.
MuxSpec(c) == ActionsSpec(<<TmuxAct(c, <<"-t", "demo">>)>>)
MuxSpecs == {MuxSpec(c) : c \in MuxNames}
    \cup {WindowsSpec(<<[Window("main") EXCEPT
                            !.PanePlan = <<PaneStep([ZeroPane EXCEPT !.Actions =
                                               <<TmuxAct("new-window", <<>>)>>])>>]>>)}

\* Panes with a command, with actions, with both and with neither, as legacy
\* panes and as panes of a plan.
CommandPanes ==
    <<[ZeroPane EXCEPT !.Command = " npm test "],
      [ZeroPane EXCEPT !.Command = "make", !.Actions = <<RunAct(" ls", <<"-l">>)>>],
      ZeroPane>>
ShorthandSpec ==
    WindowsSpec(<<[Window("main") EXCEPT
                      !.Panes = CommandPanes,
                      !.PanePlan = <<PaneStep(CommandPanes[2]), SplitStep("v", ""),
                                     PaneStep(CommandPanes[1])>>]>>)

\* Specs with a shell action at each place one can sit.
ShellSpecs ==
    {ActionsSpec(<<ShellAct("make build"), RunAct("ls", <<>>)>>),
     WindowsSpec(<<[Window("main") EXCEPT !.Actions = <<ShellAct("make build")>>]>>),
     WindowsSpec(<<[Window("main") EXCEPT
                       !.Panes = <<[ZeroPane EXCEPT !.Actions = <<ShellAct("htop")>>],
                                   [ZeroPane EXCEPT !.Actions = <<RunAct("ls", <<"-l">>)>>]>>]>>),
     WindowsSpec(<<[Window("main") EXCEPT
                       !.Panes = <<[ZeroPane EXCEPT !.Command = "htop"]>>]>>),
     WindowsSpec(<<[Window("main") EXCEPT
                       !.PanePlan = <<PaneStep([ZeroPane EXCEPT !.Actions =
                                                   <<ShellAct("npm start")>>]),
                                      SplitStep("h", "30%"),
                                      PaneStep([ZeroPane EXCEPT !.Focus = TRUE])>>]>>),
     WindowsSpec(<<[Window("main") EXCEPT
                       !.PanePlan = <<PaneStep([ZeroPane EXCEPT !.Command = "npm start"])>>]>>),
     [WindowsSpec(<<[Window("main") EXCEPT !.Layout = "tiled"]>>)
         EXCEPT !.Actions = <<ShellAct("make build")>>],
     ShorthandSpec}

\* A window laid out by a pane plan: three panes, two splits, a window action.
PlanSpec ==
    WindowsSpec(<<[Window("main") EXCEPT
        !.Actions  = <<RunAct("pwd", <<>>)>>,
        !.PanePlan =
            <<PaneStep([ZeroPane EXCEPT !.Root = "/tmp", !.Focus = TRUE,
                                        !.Actions = <<RunAct("vim", <<".">>)>>]),
              SplitStep(" V", "50%"),
              PaneStep([ZeroPane EXCEPT !.Actions =
                           <<[RunAct("ls", <<>>) EXCEPT
                                 !.Target = [NoTarget EXCEPT !.Window = "logs"]],
                             SendKeysAct(<<"clear">>, TRUE)>>]),
              SplitStep("h", "120%"),
              PaneStep(ZeroPane)>>]>>)

\* Specs without shell and passthrough actions.
SafeSpecs ==
    {ActionsSpec(<<IgnoringErrors(RunAct("make", <<"it's">>)),
                   SendKeysAct(<<"clear">>, TRUE)>>),
     ActionsSpec(<<RunAct("bash", <<"-lc", "ls">>),
                   SendKeysAct(<<"--", "bash", "-lc", "ls">>, TRUE)>>),
     ActionsSpec(<<IgnoringErrors(WaitAct(200, 100, 100)),
                   SshAct("host1", "bob", "manual")>>),
     ActionsSpec(<<SleepAct(1500)>>),
     [WindowsSpec(<<[Window("main") EXCEPT
                        !.Root = "~/src", !.FocusPane = "1", !.Focus = TRUE,
                        !.Panes = <<[ZeroPane EXCEPT !.Actions =
                                        <<RunAct("${EDITOR:-vi}", <<>>)>>],
                                    [ZeroPane EXCEPT !.Root = "/tmp"]>>]>>)
         EXCEPT !.Session = [@ EXCEPT !.Name = "My-App", !.BaseIndex = Some(1)]],
     [ZeroSpec EXCEPT !.Version = 2, !.Actions = <<RunAct("ls", <<>>)>>],
     PlanSpec,
     ZeroSpec}

RECURSIVE SeqsUpTo(_, _)
SeqsUpTo(S, n) ==
    IF n = 0 THEN {<<>>}
    ELSE LET shorter == SeqsUpTo(S, n - 1)
         IN  shorter \cup {Append(q, x) : q \in {t \in shorter : Len(t) = n - 1}, x \in S}

SpecInputs == MuxSpecs \cup ShellSpecs \cup SafeSpecs

\* Pane plans of every shape: steps with a pane, a split (good or bad
\* direction), both or neither, in every order up to MaxPlanSteps steps.
PlanSteps ==
    {PaneStep(ZeroPane), SplitStep(" H", "30%"), SplitStep("x", ""),
     [Pane |-> Some(ZeroPane), Split |-> Some([Direction |-> "v", Size |-> ""])],
     [Pane |-> Nil, Split |-> Nil]}
MaxPlanSteps == 3
PlanOfShape(steps) == WindowsSpec(<<[Window("main") EXCEPT !.PanePlan = steps]>>)
PlanShapeSpecs ==
    {PlanOfShape(steps) : steps \in SeqsUpTo(PlanSteps, MaxPlanSteps) \ {<<>>}}

\* The options of a run; Mode tells the entry point.
ZeroOptions ==
    [Mode |-> "execute", ProjectPath |-> "", ProjectName |-> "", SessionName |-> "",
     AllowShell |-> FALSE, AllowTmuxPassthrough |-> FALSE, IncludeEnsureSession |-> FALSE,
     DryRun |-> FALSE, AllowedTmuxCommands |-> {}, DisallowTmuxCommands |-> Nil]

ApplyOptions(allowShell, allowTmux, ensure, dry) ==
    [ZeroOptions EXCEPT !.Mode = "apply", !.ProjectPath = "/w/demo",
                        !.AllowShell = allowShell, !.AllowTmuxPassthrough = allowTmux,
                        !.IncludeEnsureSession = ensure, !.DryRun = dry]

\* Command sets a caller may put in a policy.
AllowedInputs == {{}, {"break-pane"}, {"new-window", "run-shell", "source-file"}}
DisallowInputs == {Nil, Some({}), Some({"new-window"})}

\* Hand-built plans for Execute: commands a Compiled may hold.
PlainCommand ==
    Command(<<"new-window", "-t", "demo", "-n", "main", "-c", "/w/demo">>,
            "create window main", FALSE)
UnsafeCommand ==
    Command(<<"new-window", "-t", "demo", "-n", "shell", "-c", "/w/demo",
              "--", "bash", "-lc", "make 'all'">>, "unsafe shell window shell", TRUE)
WaitCommand ==
    Command(<<WaitSentinel, "demo:main", "200", "100", "100", "50", "">>,
            "wait for prompt (best-effort) in demo:main", FALSE)
BadWaitCommand == Command(<<WaitSentinel, " ">>, "wait for prompt", FALSE)
SshCommand ==
    Command(<<SshSentinel, "demo:main", "host1", "bob", "22", "manual", "0">>,
            "ssh_manager_connect host1 in demo:main", FALSE)
BadSshCommand ==
    Command(<<SshSentinel, "demo:main", "host1", "", "0", "telnet", "0">>,
            "ssh_manager_connect host1 in demo:main", FALSE)

RawCommands ==
    {PlainCommand, UnsafeCommand, WaitCommand, BadWaitCommand, SshCommand, BadSshCommand}

MaxRawCmds == 2

RawPlan(cmds) ==
    [Commands |-> cmds, UnsafeUsed |-> \E i \in 1..Len(cmds) : cmds[i].Unsafe,
     Warnings |-> <<>>]

\* main's flags when the library is called without main.
NoFlags ==
    [main |-> FALSE, KeyBind |-> "", ProjectName |-> "", SpecPath |-> "", SpecSession |-> "",
     SpecCwd |-> "", Roots |-> "", Bootstrap |-> FALSE, BootstrapInitSession |-> "",
     DryRun |-> FALSE, AllowShell |-> FALSE, AllowTmuxPassthrough |-> FALSE,
     args |-> <<>>]

Start(p, sp, o, pol, cp, dry, nilRunner) ==
    [pc |-> p, specIn |-> sp, opt |-> o, policy |-> pol, compiled |-> cp,
     dryRun |-> dry, runnerNil |-> nilRunner]

\* Execute called on a hand-built plan.
ExecuteStarts ==
    {Start("entry", ZeroSpec, ZeroOptions, DefaultPolicy, RawPlan(cmds), m[1], m[2]) :
        cmds \in SeqsUpTo(RawCommands, MaxRawCmds),
        m \in {<<TRUE, FALSE>>, <<FALSE, TRUE>>, <<FALSE, FALSE>>}}

\* ApplySpecFile on every spec under every pair of flags.
ApplyStarts ==
    {Start("load", sp, ApplyOptions(f[1], f[2], f[3], m[1]),
           ApplyEnginePolicy(ApplyOptions(f[1], f[2], f[3], m[1])), NoCompiled, FALSE, m[2]) :
        sp \in SpecInputs,
        f \in {<<FALSE, FALSE, FALSE>>, <<TRUE, FALSE, TRUE>>, <<FALSE, TRUE, FALSE>>,
               <<TRUE, TRUE, FALSE>>},
        m \in {<<TRUE, FALSE>>, <<FALSE, TRUE>>, <<FALSE, FALSE>>}}

\* FromSpec then Compile on an Engine whose policy carries the caller's sets.
PolicyStarts ==
    {Start("load", sp, ApplyOptions(FALSE, t, FALSE, TRUE),
           [DefaultPolicy EXCEPT !.AllowTmuxPassthrough = t,
                                 !.AllowedTmuxCommands = al,
                                 !.DisallowTmuxCommands = dis], NoCompiled, FALSE, FALSE) :
        sp \in MuxSpecs, t \in BOOLEAN, al \in AllowedInputs, dis \in DisallowInputs}

\* BuildFromSpec with the caller's sets, then Compile on NewEngineFromSpecPolicy.
BuildStarts ==
    {Start("fromspec", sp,
           [ZeroOptions EXCEPT !.Mode = "build", !.ProjectPath = "/w/demo",
                               !.AllowTmuxPassthrough = t,
                               !.AllowedTmuxCommands = al, !.DisallowTmuxCommands = dis],
           NewEngineFromSpecPolicy(FALSE, t, al, dis), NoCompiled, dry, FALSE) :
        sp \in MuxSpecs, t \in BOOLEAN, al \in AllowedInputs, dis \in DisallowInputs,
        dry \in BOOLEAN}

\* ApplySpecFile (dry run, both flags off) on the pane plans of every shape.
PlanShapeStarts ==
    {Start("load", sp, ApplyOptions(FALSE, FALSE, FALSE, TRUE),
           ApplyEnginePolicy(ApplyOptions(FALSE, FALSE, FALSE, TRUE)), NoCompiled, FALSE, FALSE) :
        sp \in PlanShapeSpecs}

\* FromSpec then Compile on an Engine whose MaxCommandLen the caller has set:
\* unset, negative, and values around the sizes of the two commands of SizeSpec.
SizeSpec == ActionsSpec(<<RunAct("ls", <<>>), SendKeysAct(<<"clear">>, TRUE)>>)
SizeLimits == {-1, 0, 22, 23, 27, 28}
SizeStarts ==
    {Start("load", SizeSpec, ApplyOptions(FALSE, FALSE, FALSE, TRUE),
           [DefaultPolicy EXCEPT !.MaxCommandLen = n], NoCompiled, FALSE, FALSE) :
        n \in SizeLimits}

\* Execute on one readiness gate: the gate of the other plans (timeout 200,
\* quiet 100, settle 100), one that asks for no quiet time, and one with a
\* timeout just above its quiet time plus one poll interval.
WaitAtOnceCommand ==
    Command(<<WaitSentinel, "demo:main", "150", "0", "100", "50", "">>,
            "wait for prompt (best-effort) in demo:main", FALSE)
WaitTightCommand ==
    Command(<<WaitSentinel, "demo:main", "221", "120", "0", "50", "">>,
            "wait for prompt (best-effort) in demo:main", FALSE)
WaitCommands == {WaitCommand, WaitAtOnceCommand, WaitTightCommand}
WaitStarts ==
    {Start("entry", ZeroSpec, ZeroOptions, DefaultPolicy, RawPlan(<<c>>), FALSE, FALSE) :
        c \in WaitCommands}

\* Execute on one ssh_manager_connect sentinel: every login mode (given in any
\* case, or left empty), with and without a user, ports that are positive,
\* zero, negative and not a number.
SshSentinelCommand(host, user, port, mode) ==
    Command(<<SshSentinel, " demo:main.1", host, user, port, mode, "5000">>,
            "ssh_manager_connect " \o host \o " in demo:main.1", FALSE)
SshCommands ==
    {SshSentinelCommand("db 1", u, p, m) :
        u \in {"", " bob "}, p \in {"2222", "0", "-1", "ssh", ""},
        m \in {"askpass", "", " Manual", "KEY"}}
SshStarts ==
    {Start("entry", ZeroSpec, ZeroOptions, DefaultPolicy, RawPlan(<<c>>), FALSE, FALSE) :
        c \in SshCommands}

\* ApplySpecFile (dry run) on a spec that types one reference of every kind:
\* built-ins, a variable of the spec's env, of the process environment, of
\* both, of neither, with and without a default; under spec envs and process
\* environments that also carry entries named like built-ins and empty entries.
SubstKeysInput ==
    <<"n=${PROJECT_NAME}", "p=${PROJECT_PATH:-nowhere}", "s=${SESSION_NAME}",
      "t=${TMUX_SOCK}", "u=${TMUX_SOCK:-dflt}", "f=${FOO}", "g=${FOO:-dflt}",
      "h=${NOPE}", "i=${NOPE:-}", "e=${EDITOR:-ed}">>
SubstSpecEnvs ==
    {NoEnv,
     ("FOO" :> "spec") @@ ("PROJECT_NAME" :> "evil"),
     ("FOO" :> "") @@ ("TMUX_SOCK" :> "/s/spec") @@ ("EDITOR" :> "nano")}
SubstProcessEnvs ==
    {ProcessEnv,
     ("FOO" :> "proc") @@ ("SESSION_NAME" :> "evil") @@ ("TMUX_SOCK" :> "/s/proc") @@ ProcessEnv}
SubstSpec(env) ==
    [ActionsSpec(<<SendKeysAct(SubstKeysInput, FALSE)>>) EXCEPT !.Env = env]
SubstStarts ==
    {Start("load", SubstSpec(env), ApplyOptions(FALSE, FALSE, FALSE, TRUE),
           ApplyEnginePolicy(ApplyOptions(FALSE, FALSE, FALSE, TRUE)), NoCompiled, FALSE, FALSE)
         @@ ("environ" :> penv) :
        env \in SubstSpecEnvs, penv \in SubstProcessEnvs}

\* main on a command line: --spec, --project or neither, with and without
\* --bootstrap and --dry-run, in a shell outside tmux (bootstrap enabled by
\* the environment, disabled, or re-run by the bootstrapper) and inside a
\* client; the spec file holds a plan of two windows, a plan of actions whose
\* session is not attached, or a document Validate rejects.
MainFlags(spec, project, bootstrap, dry) ==
    [NoFlags EXCEPT !.main = TRUE, !.SpecPath = spec, !.ProjectName = project,
                    !.Bootstrap = bootstrap, !.DryRun = dry,
                    !.args = (IF spec # "" THEN <<"--spec", spec>> ELSE <<>>)
                                 \o (IF project # "" THEN <<"--project", project>> ELSE <<>>)
                                 \o (IF bootstrap THEN <<"--bootstrap">> ELSE <<>>)
                                 \o (IF dry THEN <<"--dry-run">> ELSE <<>>)]
MainEnvirons ==
    {ProcessEnv,
     ("TMUX_SESSION_MANAGER_BOOTSTRAP" :> "1") @@ ProcessEnv,
     ("TMUX_SESSION_MANAGER_BOOTSTRAP" :> "off") @@ ProcessEnv,
     ("TMUX_SESSION_MANAGER_BOOTSTRAPPED" :> "1") @@ ProcessEnv,
     ("TMUX" :> "/tmp/tmux-501/default,4242,0") @@ ProcessEnv,
     ("TMUX" :> "/tmp/tmux-501/default,4242,0") @@ ("TMUX_SESSION_MANAGER_BOOTSTRAPPED" :> "1")
         @@ ("TMUX_SESSION_MANAGER_INIT_SESSION" :> "__tsm_init__") @@ ProcessEnv}
MainSpecs ==
    {WindowsSpec(<<Window("main"), Window("logs")>>),
     [SizeSpec EXCEPT !.Session.SwitchClient = Some(FALSE)],
     ZeroSpec}
MainIntents == {<<"~/src/demo/.tmux-session.yaml", "">>, <<"", "demo">>, <<"", "">>}
MainStarts ==
    {Start("main", sp, ZeroOptions, DefaultPolicy, NoCompiled, FALSE, FALSE)
         @@ ("environ" :> env) @@ ("flags" :> MainFlags(i[1], i[2], b, d)) :
        sp \in MainSpecs, env \in MainEnvirons, i \in MainIntents, b \in BOOLEAN,
        d \in BOOLEAN}
        \cup {Start("main", ZeroSpec, ZeroOptions, DefaultPolicy, NoCompiled, FALSE, FALSE)
                  @@ ("flags" :> [NoFlags EXCEPT !.main = TRUE, !.KeyBind = "o",
                                                  !.args = <<"--print-bind", "o">>])}

\* Execute with the reference Runner on one command, inside tmux on a socket of
\* its own, with a TMUX value that names no socket, and outside tmux; the
\* commands: every kind the compiler emits that the claim names, the readiness
\* gate, and argv that carry -S or -L, as a server override and otherwise.
TmuxEnvs == {"", "/tmp/tmux-501/work,4242,0", " ,4242,0"}
RunnerCommands ==
    {PlainCommand, WaitAtOnceCommand,
     Command(<<"split-window", "-t", "demo:main", "-h", "-c", "/w/demo">>, "split", FALSE),
     Command(<<"select-pane", "-t", "demo:main.1">>, "focus pane", FALSE),
     Command(<<"send-keys", "-t", "demo:main", "ls", "C-m">>, "send keys", FALSE),
     Command(<<"-S", "/tmp/other.sock", "new-window", "-t", "demo">>, "other server", TRUE),
     Command(<<"-L", "other", "new-window", "-t", "demo">>, "other server", TRUE),
     Command(<<"select-pane", "-t", "demo:main.1", "-L">>, "pane to the left", TRUE)}
RunnerStarts ==
    {Start("entry", ZeroSpec, ZeroOptions, DefaultPolicy, RawPlan(<<c>>), FALSE, FALSE)
         @@ ("environ" :> (ProcessEnv @@ ("TMUX" :> e))) :
        c \in RunnerCommands, e \in TmuxEnvs}

\* ApplySpecFile (dry run, both flags off) on windows whose panes ask for
\* focus: legacy panes and panes of a plan, with each focus_pane, alone and
\* followed by a second window.
FocusPanes(f1, f2) ==
    <<[ZeroPane EXCEPT !.Focus = f1, !.Actions = <<RunAct("vim", <<>>)>>],
      [ZeroPane EXCEPT !.Focus = f2]>>
FocusWindows ==
    {[Window("main") EXCEPT !.FocusPane = fp, !.Panes = FocusPanes(f1, f2)] :
        fp \in {"", "active", "2"}, f1 \in BOOLEAN, f2 \in BOOLEAN}
    \cup
    {[Window("main") EXCEPT !.FocusPane = fp,
                            !.PanePlan = <<PaneStep(FocusPanes(f1, f2)[1]),
                                           SplitStep("h", ""),
                                           PaneStep(FocusPanes(f1, f2)[2])>>] :
        fp \in {"", "active", "2"}, f1 \in BOOLEAN, f2 \in BOOLEAN}
FocusSpecs ==
    {WindowsSpec(<<w>>) : w \in FocusWindows}
    \cup {WindowsSpec(<<w, [Window("logs") EXCEPT !.FocusPane = "0", !.Focus = TRUE,
                                                  !.Panes = FocusPanes(TRUE, FALSE)]>>) :
              w \in FocusWindows}
FocusStarts ==
    {Start("load", sp, ApplyOptions(FALSE, FALSE, FALSE, TRUE),
           ApplyEnginePolicy(ApplyOptions(FALSE, FALSE, FALSE, TRUE)), NoCompiled, FALSE, FALSE) :
        sp \in FocusSpecs}

\* ApplySpecFile (dry run, both flags off) on specs with windows, with
\* spec-level actions and with both, with and without session.focus_window.
BothSpecs ==
    {[ZeroSpec EXCEPT !.Version = 1, !.Windows = ws, !.Actions = as,
                      !.Session = [@ EXCEPT !.FocusWindow = fw]] :
        ws \in {<<>>, <<Window("main")>>,
                <<[Window("main") EXCEPT !.Actions = <<RunAct("htop", <<>>)>>],
                  Window("logs")>>},
        as \in {<<>>, <<RunAct("echo", <<"spec-level">>)>>,
                <<RunAct("echo", <<"spec-level">>), SendKeysAct(<<"clear">>, TRUE)>>},
        fw \in {"", " Active", "logs", "1"}}
BothStarts ==
    {Start("load", sp, ApplyOptions(FALSE, FALSE, FALSE, TRUE),
           ApplyEnginePolicy(ApplyOptions(FALSE, FALSE, FALSE, TRUE)), NoCompiled, FALSE, FALSE) :
        sp \in BothSpecs}

\* Execute on plans that hold a sentinel whose arguments its handler rejects,
\* before and after a plain command: too few arguments, an empty target, a
\* prompt_regex that does not compile, an empty host, an unknown login mode.
RejectedCommands ==
    {Command(<<WaitSentinel, "demo:main", "200", "100", "100">>, "wait for prompt", FALSE),
     Command(<<WaitSentinel, "  ", "200", "100", "100", "50", "">>, "wait for prompt", FALSE),
     Command(<<WaitSentinel, "demo:main", "200", "100", "100", "50", "[$#">>,
             "wait for prompt", FALSE),
     Command(<<SshSentinel, "demo:main", "host1", "bob", "22", "manual">>,
             "ssh_manager_connect", FALSE),
     Command(<<SshSentinel, " ", "host1", "bob", "22", "manual", "0">>,
             "ssh_manager_connect", FALSE),
     Command(<<SshSentinel, "demo:main", "  ", "bob", "22", "manual", "0">>,
             "ssh_manager_connect", FALSE),
     Command(<<SshSentinel, "demo:main", "host1", "bob", "22", "password", "0">>,
             "ssh_manager_connect", FALSE)}
RejectedStarts ==
    {Start("entry", ZeroSpec, ZeroOptions, DefaultPolicy, RawPlan(cmds), FALSE, FALSE) :
        cmds \in {<<c, PlainCommand>> : c \in RejectedCommands}
                  \cup {<<PlainCommand, c, PlainCommand>> : c \in RejectedCommands}}

\* Compile called on an IR the caller built by hand, FromSpec not involved.
IRActions ==
    {[ZeroAction EXCEPT !.Kind = "new_window", !.Name = "build", !.Command = "make all"],
     [ZeroAction EXCEPT !.Kind = "new_window", !.Name = "logs"],
     [ZeroAction EXCEPT !.Kind = "split_window", !.Window = "build", !.Direction = "h",
                        !.Command = "tail -f ${PROJECT_NAME}.log"],
     [ZeroAction EXCEPT !.Kind = "split_window", !.Window = "build", !.Direction = "v"],
     [ZeroAction EXCEPT !.Kind = "shell", !.Name = "sh", !.Shell = "echo hi"],
     [ZeroAction EXCEPT !.Kind = "select_window", !.Window = "build"]}
IRContext ==
    [ZeroContext EXCEPT !.ProjectName = "demo", !.ProjectPath = "/w/demo",
                        !.SessionName = "demo", !.WorkingDir = "/w/demo"]
IRStarts ==
    {Start("compile", ZeroSpec, [ZeroOptions EXCEPT !.Mode = "compile", !.AllowShell = sh],
           [DefaultPolicy EXCEPT !.AllowShell = sh], NoCompiled, dry, FALSE)
         @@ ("context" :> IRContext)
         @@ ("tpl" :> [ZeroTemplate EXCEPT !.Version = 1, !.ID = "ir", !.Name = "ir",
                                           !.Actions = acts]) :
        acts \in SeqsUpTo(IRActions, 2), sh \in BOOLEAN, dry \in BOOLEAN}

\* Compile, passthrough allowed, on an IR with one passthrough action whose
\* leading argument is a subcommand, blank, empty or an unset variable.
IRMuxArgs ==
    {<<"list-windows", "-t", "demo">>, <<" ">>, <<"">>, <<"${NOPE}", "-t", "demo">>,
     <<"tmux ", "kill-server">>, <<"tmux list-windows">>}
IRMuxStarts ==
    {Start("compile", ZeroSpec,
           [ZeroOptions EXCEPT !.Mode = "compile", !.AllowTmuxPassthrough = TRUE],
           [DefaultPolicy EXCEPT !.AllowTmuxPassthrough = TRUE], NoCompiled, dry, FALSE)
         @@ ("context" :> IRContext)
         @@ ("tpl" :> [ZeroTemplate EXCEPT !.Version = 1, !.ID = "ir", !.Name = "ir",
                                           !.Actions = pre \o <<[ZeroAction EXCEPT
                                                                   !.Kind = "tmux",
                                                                   !.TmuxArgs = args]>>]) :
        args \in IRMuxArgs, dry \in BOOLEAN,
        pre \in {<<>>, <<[ZeroAction EXCEPT !.Kind = "select_window", !.Window = "build"]>>}}

\* ApplySpecFile on specs with one run action whose words need quoting: a
\* blank, an empty word, double quotes, a backslash, one and two single quotes.
QuoteArgvs ==
    {<<"echo", "plain">>, <<"echo", "a b", "">>, <<"echo", "say \"hi\"">>,
     <<"echo", "a\\b">>, <<"echo", "it's">>, <<"git", "commit", "-m", "don't stop">>,
     <<"echo", "'a'">>}
QuoteSpecs == {ActionsSpec(<<RunAct(Head(argv), Tail(argv))>>) : argv \in QuoteArgvs}
QuoteStarts ==
    {Start("load", sp, ApplyOptions(FALSE, FALSE, FALSE, dry),
           ApplyEnginePolicy(ApplyOptions(FALSE, FALSE, FALSE, dry)), NoCompiled, FALSE, FALSE) :
        sp \in QuoteSpecs, dry \in BOOLEAN}

\* The selector started with and without --dry-run, on servers with no, one
\* and two sessions, with one project under the roots, by a user who presses
\* MaxKeys keys; a selector that main starts after its own steps is left alone.
TuiServers == {{}, {"api"}, {"api", "web"}}
TuiProjects == <<[Name |-> "demo", Path |-> "/w/demo"]>>
TuiStarts ==
    {Start("tui", ZeroSpec, ZeroOptions, DefaultPolicy, NoCompiled, FALSE, FALSE)
         @@ ("flags" :> [NoFlags EXCEPT !.main = TRUE, !.DryRun = d])
         @@ ("tui" :> TuiIdle(sv, TuiProjects, MaxKeys)) :
        d \in BOOLEAN, sv \in TuiServers}

Starts == QuoteStarts \cup TuiStarts \cup IRStarts \cup IRMuxStarts \cup FocusStarts \cup BothStarts \cup RejectedStarts
              \cup ExecuteStarts \cup ApplyStarts \cup PolicyStarts \cup BuildStarts
              \cup PlanShapeStarts \cup SizeStarts \cup WaitStarts \cup SshStarts
              \cup RunnerStarts \cup SubstStarts \cup MainStarts

Init ==
    \E st \in Starts :
        /\ pc = st.pc
        /\ specIn = st.specIn
        /\ loaded = st.specIn
        /\ opt = st.opt
        /\ policy = st.policy
        /\ context = (IF "context" \in DOMAIN st THEN st.context ELSE ZeroContext)
        /\ tpl = (IF "tpl" \in DOMAIN st THEN st.tpl ELSE ZeroTemplate)
        /\ compiled = st.compiled
        /\ dryRun = st.dryRun
        /\ runnerNil = st.runnerNil
        /\ idx = 0
        /\ calls = <<>>
        /\ handled = <<>>
        /\ err = NoErr
        /\ lines = <<>>
        /\ now = 0
        /\ wait = WaitIdle
        /\ environ = (IF "environ" \in DOMAIN st THEN st.environ ELSE ProcessEnv)
        /\ flags = (IF "flags" \in DOMAIN st THEN st.flags ELSE NoFlags)
        /\ execs = <<>>
        /\ tui = (IF "tui" \in DOMAIN st THEN st.tui ELSE TuiIdle({}, <<>>, 0))

Next ==
    \/ ApplyLoad
    \/ ApplyValidatePolicy
    \/ ApplyFromSpec
    \/ CallBuildFromSpec
    \/ ApplyCompile
    \/ CallCompile
    \/ ExecuteEntry
    \/ ExecuteRun
    \/ ExecSshManagerConnect
    \/ ExecWaitForPrompt
    \/ WaitTimeout
    \/ WaitPoll
    \/ ExecuteReturn
    \/ ApplyReturn
    \/ MainBootstrap
    \/ MainResolveProject
    \/ MainPrecheck
    \/ MainAfterApply
    \/ RunTUI
    \/ TuiKey
    \/ ServerLosesSession

Spec == Init /\ [][Next]_vars

\* The readiness gate runs on one goroutine that nothing preempts for good, and
\* its capture and sleep calls return: an iteration of its loop that can be
\* taken is taken.
FairSpec == Spec /\ WF_vars(WaitPoll \/ WaitTimeout)

(***************************************************************************)
(* Properties                                                              *)
(***************************************************************************)
\* The spec pipeline (load, policy, FromSpec or BuildFromSpec, Compile) has ended.
PipelineSucceeded ==
    opt.Mode \in {"apply", "build"} /\ pc \in {"entry", "loop", "wait", "done", "returned"}
PipelineFailed == opt.Mode \in {"apply", "build"} /\ pc \in {"failed", "panic"}
PipelineOver == PipelineSucceeded \/ PipelineFailed

\* Execute has computed its lines and, on a real run, entered its loop.
ExecuteEntered == pc \in {"loop", "wait", "done"}

IsSentinelArgv(args) == Len(args) > 0 /\ args[1] \in {WaitSentinel, SshSentinel}

\* C1: no Runner call (Run or RunOutput) ever receives an argv whose first
\* element is __wait_for_prompt__ or __ssh_manager_connect__, whatever the
\* compiled command list and whatever the Runner answers.
C1_NoSentinelReachesRunner ==
    \A j \in 1..Len(calls) :
        /\ calls[j].method \in {"Run", "RunOutput"}
        /\ ~IsSentinelArgv(calls[j].args)
        /\ ~HasPrefix(calls[j].args[1], "__")

\* Both sentinel commands of a plan were handled without error, with Runner calls.
C1_Witness ==
    /\ pc = "done" /\ err = NoErr /\ ~dryRun
    /\ Len(handled) = 2 /\ Len(calls) >= 2
    /\ compiled.Commands[1].Args[1] = WaitSentinel
    /\ compiled.Commands[2].Args[1] = SshSentinel
    /\ \E j \in 1..Len(calls) : calls[j].cmd = 1 /\ calls[j].method = "RunOutput"
    /\ \E j \in 1..Len(calls) : calls[j].cmd = 2 /\ calls[j].method = "Run"

\* C2: a real run handles the commands strictly in list order. The k-th handled
\* command is command k (none skipped, repeated or reordered) and only the last
\* handled one may have failed; the Runner calls are in command order, a call
\* belongs to a command already handled or to the one being handled, and a
\* plain command is handed to Run once, with its own argv.
C2_StrictListOrder ==
    /\ \A k \in 1..Len(handled) :
           /\ handled[k].cmd = k
           /\ k < Len(handled) => handled[k].err = NoErr
    /\ Len(handled) <= Len(compiled.Commands)
    /\ pc \in {"loop", "wait"} => idx = Len(handled) + 1
    /\ \A j \in 1..Len(calls) :
           /\ calls[j].cmd \in 1..Len(compiled.Commands)
           /\ j < Len(calls) => calls[j].cmd <= calls[j + 1].cmd
           /\ \/ calls[j].cmd <= Len(handled)
              \/ pc = "wait" /\ calls[j].cmd = Len(handled) + 1
           /\ HandlerOf(compiled.Commands[calls[j].cmd]) = "run"
                  => /\ calls[j].args = compiled.Commands[calls[j].cmd].Args
                     /\ \A m \in 1..Len(calls) : calls[m].cmd = calls[j].cmd => m = j
    /\ (pc = "done" /\ err = NoErr /\ ~dryRun /\ ~runnerNil)
           => Len(handled) = Len(compiled.Commands)

\* A real run of two different plain commands ended without error.
C2_Witness ==
    /\ pc = "done" /\ err = NoErr /\ ~dryRun
    /\ Len(handled) = 2 /\ Len(calls) = 2
    /\ calls[1].args # calls[2].args
    /\ calls[1].args = compiled.Commands[1].Args
    /\ calls[2].args = compiled.Commands[2].Args

\* C3: when the Runner call or the sentinel handler of command i returns an
\* error, Execute returns that error (ApplySpecFile wraps it) and no Runner call
\* is issued for a later command; main exits with the wrapped error in hand.
C3_AbortsAtFirstError ==
    \A i \in 1..Len(handled) :
        handled[i].err # NoErr
            => /\ i = Len(handled)
               /\ pc \in {"done", "returned", "exit0", "exit1"}
               /\ pc = "done" => err = handled[i].err
               /\ pc # "done" => err = "execute spec: " \o handled[i].err
               /\ \A j \in 1..Len(calls) : calls[j].cmd <= i

\* The first of two commands failed and Execute has returned its error.
C3_Witness ==
    /\ pc = "done" /\ Len(compiled.Commands) = 2
    /\ Len(handled) = 1 /\ handled[1].err # NoErr /\ err = handled[1].err
    /\ Len(calls) = 1

\* The spec action command i of the plan was lowered from, for a spec run from
\* its actions[]: every action lowers to one IR action and every IR action to
\* one command, after the commands of ensure_session and of the two indexes.
LoweredPrefixLen == Len(compiled.Commands) - Len(loaded.Actions)
FromIgnoreErrorAction(i) ==
    /\ opt.Mode = "apply" /\ PipelineSucceeded
    /\ Len(loaded.Windows) = 0
    /\ Len(tpl.Actions) = Len(compiled.Commands)
    /\ i > LoweredPrefixLen
    /\ loaded.Actions[i - LoweredPrefixLen].IgnoreError

\* C4: when the spec action a command was lowered from has ignore_error=true,
\* a failure of that command does not abort the plan: Execute does not return
\* before it has handled the commands that come after it.
C4_IgnoreErrorContinues ==
    \A i \in 1..Len(handled) :
        (FromIgnoreErrorAction(i) /\ handled[i].err # NoErr /\ i < Len(compiled.Commands))
            => (pc \in {"done", "returned"} => Len(handled) > i)

\* C5: a dry run issues no Runner call, and the lines Execute returns are the
\* lines of the compiled plan alone, DryRunLines(compiled), on a dry run and on
\* a real run alike, whether the real run succeeds or stops on an error.
C5_DryRunLinesAreTheContract ==
    /\ dryRun => calls = <<>> /\ handled = <<>>
    /\ ExecuteEntered => lines = DryRunLines(compiled)
    /\ (ExecuteEntered /\ dryRun) => pc = "done" /\ err = NoErr

\* A dry run of a plan of two commands has returned its lines.
C5_Witness ==
    /\ dryRun /\ pc = "done" /\ calls = <<>>
    /\ Len(compiled.Commands) = 2
    /\ Len(lines) >= 2 /\ lines = DryRunLines(compiled)

\* An argv that makes tmux start a shell on a snippet: bash -lc after the
\* subcommand. The arguments of send-keys are keys typed into a pane; tmux
\* starts no process from them.
RunsShellSnippet(args) ==
    /\ Len(args) > 0 /\ args[1] # "send-keys"
    /\ \E k \in 1..(Len(args) - 1) : args[k] = "bash" /\ args[k + 1] = "-lc"

\* C6: with AllowShell and AllowTmuxPassthrough both off, every plan FromSpec
\* then Compile produces has UnsafeUsed false, no command flagged unsafe and no
\* command whose argv runs a shell snippet.
C6_SafeFlagsGiveSafePlan ==
    (PipelineSucceeded /\ ~opt.AllowShell /\ ~opt.AllowTmuxPassthrough
        /\ ~policy.AllowShell /\ ~policy.AllowTmuxPassthrough)
        => /\ ~compiled.UnsafeUsed
           /\ \A i \in 1..Len(compiled.Commands) :
                  /\ ~compiled.Commands[i].Unsafe
                  /\ ~RunsShellSnippet(compiled.Commands[i].Args)

\* With both flags off a plan was compiled whose keys spell out bash -lc.
C6_Witness ==
    /\ opt.Mode = "apply" /\ pc = "returned" /\ err = NoErr
    /\ ~opt.AllowShell /\ ~opt.AllowTmuxPassthrough
    /\ Len(compiled.Commands) = 2
    /\ \E i \in 1..2 : \E k \in 1..(Len(compiled.Commands[i].Args) - 1) :
           compiled.Commands[i].Args[k] = "bash" /\ compiled.Commands[i].Args[k + 1] = "-lc"

\* Every action of a spec, wherever it sits.
PaneActionsOf(w) ==
    Flatten([j \in 1..Len(w.Panes) |-> w.Panes[j].Actions])
PanePlanActionsOf(w) ==
    Flatten([k \in 1..Len(w.PanePlan) |->
                IF w.PanePlan[k].Pane = Nil THEN <<>> ELSE w.PanePlan[k].Pane[1].Actions])
AllActions(s) ==
    s.Actions \o Flatten([i \in 1..Len(s.Windows) |->
                             s.Windows[i].Actions \o PaneActionsOf(s.Windows[i])
                                 \o PanePlanActionsOf(s.Windows[i])])
HasShellAction(s) == \E i \in 1..Len(AllActions(s)) : AllActions(s)[i].Type = "shell"

\* A spec that loads and, but for its shell actions, holds only actions that
\* need no permission.
OtherwiseValid(s) ==
    \A i \in 1..Len(AllActions(s)) : AllActions(s)[i].Type \in {"shell", "run", "send_keys"}

\* C7: for a spec that is otherwise valid and contains a shell action (explicit
\* or from a pane's command shorthand; spec-level, window-level, legacy pane or
\* pane_plan pane), ValidatePolicy + FromSpec + Compile succeeds if and only if
\* AllowShell is true.
C7_ShellCompilesIffAllowShell ==
    (opt.Mode = "apply" /\ PipelineOver /\ Validate(specIn) = NoErr
        /\ HasShellAction(loaded) /\ OtherwiseValid(loaded))
        => (PipelineSucceeded <=> opt.AllowShell)

\* With AllowShell on, the command shorthand of a pane_plan pane was compiled
\* into an unsafe command.
C7_Witness ==
    /\ opt.Mode = "apply" /\ PipelineSucceeded /\ opt.AllowShell
    /\ Len(specIn.Windows) = 1 /\ Len(specIn.Windows[1].PanePlan) = 1
    /\ specIn.Windows[1].PanePlan[1].Pane[1].Command # ""
    /\ HasShellAction(loaded)
    /\ compiled.UnsafeUsed
    /\ \E i \in 1..Len(compiled.Commands) : RunsShellSnippet(compiled.Commands[i].Args)

\* The sets the two stages consult for a passthrough action.
FromSpecAllowlist ==
    IF opt.Mode = "build" /\ opt.AllowedTmuxCommands # {} THEN opt.AllowedTmuxCommands
    ELSE defaultAllowedTmuxCommands
FromSpecDenylist ==
    IF opt.Mode = "build" /\ opt.DisallowTmuxCommands # Nil THEN opt.DisallowTmuxCommands[1]
    ELSE DefaultDisallowTmuxCommands
EngineAllowlist ==
    IF policy.AllowedTmuxCommands = {} THEN defaultAllowedTmuxCommands
    ELSE policy.AllowedTmuxCommands
EngineDenylist ==
    IF policy.DisallowTmuxCommands = Nil THEN {} ELSE policy.DisallowTmuxCommands[1]

\* FromSpec then Compile on an Engine with the policy of the state.
FromSpecThenCompile == opt.Mode = "apply" /\ PipelineOver

EmptyAllowlist ==
    \/ opt.Mode = "apply" /\ policy.AllowedTmuxCommands = {}
    \/ opt.Mode = "build" /\ opt.AllowedTmuxCommands = {}

DocumentedDenylist ==
    {"run-shell", "if-shell", "pipe-pane", "respawn-pane", "respawn-window",
     "source-file", "source", "display-popup", "load-buffer", "save-buffer", "capture-pane"}

\* Both stages consult the default denylist.
DefaultDenylistInForce ==
    /\ policy.DisallowTmuxCommands = DefaultPolicy.DisallowTmuxCommands
    /\ opt.Mode = "build" => opt.DisallowTmuxCommands = Nil

\* C10: with only AllowTmuxPassthrough switched on and the denylist left at
\* its default, a passthrough action naming a subcommand of the documented
\* denylist is rejected, also when the allowlist in force contains the name.
C10_DocumentedDenylistRejects ==
    \A c \in MuxNames \cap DocumentedDenylist :
        (PipelineOver /\ specIn = MuxSpec(c) /\ opt.AllowTmuxPassthrough /\ ~opt.AllowShell
            /\ DefaultDenylistInForce)
            => ~PipelineSucceeded

\* The subcommands the default allowlist is documented to hold.
DocumentedAllowlist ==
    {"new-session", "kill-session", "rename-session", "switch-client", "select-session",
     "attach-session", "new-window", "kill-window", "rename-window", "select-window",
     "move-window", "swap-window", "split-window", "kill-pane", "select-pane", "swap-pane",
     "resize-pane", "break-pane", "join-pane", "select-layout", "send-keys", "set-buffer",
     "display-message", "set-option", "set-window-option", "list-windows", "list-panes",
     "list-sessions", "set-hook"}

\* ApplySpecFile ran under the default policy with only passthrough switched on.
DefaultPolicyWithPassthrough ==
    /\ opt.Mode = "apply" /\ PipelineOver
    /\ opt.AllowTmuxPassthrough /\ ~opt.AllowShell
    /\ policy = ApplyEnginePolicy(opt)

\* C11: under the default policy with AllowTmuxPassthrough switched on, a
\* passthrough action with subcommand c passes ValidatePolicy, FromSpec and
\* Compile exactly when c is one of the 29 names of the documented set.
C11_DocumentedAllowlistAccepted ==
    \A c \in MuxNames :
        (DefaultPolicyWithPassthrough /\ specIn = MuxSpec(c))
            => (PipelineSucceeded <=> c \in DocumentedAllowlist)

\* ValidatePolicy of ApplySpecFile returned nil: FromSpec is the next call.
ValidatePolicyPassed == opt.Mode = "apply" /\ pc = "fromspec"

\* C12: ValidatePolicy with AllowShell=false returns an error for every spec
\* that has a shell action anywhere one can occur: spec-level, window-level,
\* legacy pane, pane_plan pane (also one made from the command shorthand).
C12_ValidatePolicyRejectsEveryShell ==
    (ValidatePolicyPassed /\ ~opt.AllowShell) => ~HasShellAction(loaded)

\* The session a tmux target names: the text before the first ':' or '.'.
RECURSIVE SessionOf(_)
SessionOf(target) ==
    IF target = "" \/ Head(target) \in {":", "."} THEN ""
    ELSE SubSeq(target, 1, 1) \o SessionOf(Tail(target))

\* The sessions the argv of a command names: the target of a sentinel, or the
\* value of its first -t or -s unless that is a pane id (%N).
FirstTargetFlag(args) ==
    IF \E k \in 2..(Len(args) - 1) : args[k] \in {"-t", "-s"}
    THEN CHOOSE k \in 2..(Len(args) - 1) :
             /\ args[k] \in {"-t", "-s"}
             /\ \A j \in 2..(k - 1) : args[j] \notin {"-t", "-s"}
    ELSE 0
NamedSessions(args) ==
    IF IsSentinelArgv(args) THEN {SessionOf(args[2])}
    ELSE IF FirstTargetFlag(args) = 0 \/ HasPrefix(args[FirstTargetFlag(args) + 1], "%")
         THEN {}
    ELSE {SessionOf(args[FirstTargetFlag(args) + 1])}

\* No action of the spec carries an argv written by the author of the spec.
NoPassthroughAction(s) ==
    \A i \in 1..Len(AllActions(s)) : AllActions(s)[i].Type # "tmux"

\* C13: when ctx.SessionName is non-empty, every command of
\* Compile(ctx, FromSpec(ctx, spec, ...)) that names a session names exactly
\* ctx.SessionName, for every name made of letters, digits, '_' and '-'.
C13_CommandsNameContextSession ==
    (opt.Mode = "apply" /\ PipelineSucceeded /\ context.SessionName # ""
        /\ ValidateTmuxName(context.SessionName) = NoErr /\ NoPassthroughAction(loaded))
        => \A i \in 1..Len(compiled.Commands) :
               \A n \in NamedSessions(compiled.Commands[i].Args) : n = context.SessionName

\* The session name FromSpec gives the IR actions, and the commands before the
\* first window (ensure_session, base-index, pane-base-index).
PlanSession == sanitizeSessionName(TrimSpace(context.SessionName))
PlanPrologueLen ==
    (IF opt.IncludeEnsureSession THEN 1 ELSE 0)
        + (IF loaded.Session.BaseIndex # Nil THEN 1 ELSE 0)
        + (IF loaded.Session.PaneBaseIndex # Nil THEN 1 ELSE 0)
PlanSessionRoot ==
    IF TrimSpace(loaded.Session.Root) = "" THEN expandUser(TrimSpace(context.ProjectPath))
    ELSE expandUser(TrimSpace(loaded.Session.Root))
PlanWinRoot(w) ==
    expandUser(subst(context, IF TrimSpace(w.Root) = "" THEN PlanSessionRoot
                              ELSE TrimSpace(w.Root)))
PlanTarget(w) == PlanSession \o ":" \o TrimSpace(w.Name)

\* What the plan is expected to hold at one position: a command with a fixed
\* argv, or the command of an action of the spec, addressed to a window.
FixedArgv(args) == [fixed |-> TRUE, args |-> args, window |-> ""]
ActionOf(a, w) ==
    [fixed |-> FALSE, args |-> <<>>,
     window |-> IF TrimSpace(a.Target.Window) # "" THEN TrimSpace(a.Target.Window)
                ELSE w.Name]
ActionsOf(actions, w) == [i \in 1..Len(actions) |-> ActionOf(actions[i], w)]

SplitArgv(w, split) ==
    <<"split-window", IF ToLower(TrimSpace(split.Direction)) = "h" THEN "-h" ELSE "-v",
      "-t", PlanTarget(w), "-c", PlanWinRoot(w)>>
        \o (IF SplitPercent(split.Size) > 0 THEN <<"-p", Itoa(SplitPercent(split.Size))>>
            ELSE <<>>)

ExpectedStep(w, i) ==
    IF w.PanePlan[i].Pane # Nil
    THEN (IF i = 1 /\ PaneRootOf(context, w.PanePlan[i].Pane[1], PlanWinRoot(w))
                          \notin {"", PlanWinRoot(w)}
          THEN <<FixedArgv(<<"send-keys", "-t", PlanTarget(w),
                             "cd " \o shellQuote(PaneRootOf(context, w.PanePlan[i].Pane[1],
                                                            PlanWinRoot(w))),
                             "C-m">>)>>
          ELSE <<>>)
             \o ActionsOf(w.PanePlan[i].Pane[1].Actions, w)
             \o (IF w.PanePlan[i].Pane[1].Focus
                 THEN <<FixedArgv(<<"select-window", "-t", PlanTarget(w)>>)>> ELSE <<>>)
    ELSE <<FixedArgv(SplitArgv(w, w.PanePlan[i].Split[1]))>>

ExpectedPlan(w) ==
    <<FixedArgv(<<"new-window", "-t", PlanSession, "-n", TrimSpace(w.Name),
                  "-c", PlanWinRoot(w)>>),
      FixedArgv(<<"select-window", "-t", PlanTarget(w)>>)>>
        \o ActionsOf(w.Actions, w)
        \o Flatten([i \in 1..Len(w.PanePlan) |-> ExpectedStep(w, i)])

\* The command c, compiled from the IR action a, is what e expects: the argv
\* itself, or an action addressed to S:W whose command, when it has a pane
\* target (send-keys, a sentinel), carries that target.
MeetsExpectation(e, c, a) ==
    IF e.fixed THEN c.Args = e.args
    ELSE /\ a.Session = PlanSession /\ a.Window = e.window
         /\ ~c.Unsafe => HasPrefix(IF IsSentinelArgv(c.Args) THEN c.Args[2] ELSE c.Args[3],
                                   PlanSession \o ":" \o e.window)

PlanCompiled ==
    /\ opt.Mode = "apply" /\ PipelineSucceeded
    /\ Len(loaded.Windows) = 1 /\ Len(loaded.Windows[1].PanePlan) > 0

\* C14: for a window W with a pane_plan the commands appear in plan order:
\* new-window for W, select-window S:W, then for each step, left to right, the
\* pane's action commands (addressed to S:W unless the action names a window)
\* and a select-window S:W when the pane has focus, or the split's single
\* split-window (-h or -v, -t S:W, -c window root, -p NN for a size NN% with
\* 0 < NN < 100). Window-scoped actions sit right after the select-window and
\* a first pane with a root of its own starts with a cd.
C14_PanePlanOrder ==
    PlanCompiled =>
        /\ Len(tpl.Actions) = Len(compiled.Commands)
        /\ Len(compiled.Commands) >= PlanPrologueLen + Len(ExpectedPlan(loaded.Windows[1]))
        /\ \A j \in 1..Len(ExpectedPlan(loaded.Windows[1])) :
               MeetsExpectation(ExpectedPlan(loaded.Windows[1])[j],
                                compiled.Commands[PlanPrologueLen + j],
                                tpl.Actions[PlanPrologueLen + j])

\* The three-pane plan was compiled: its first split, with -p 50, sits between
\* the focus of the first pane and the first command of the second pane.
C14_Witness ==
    /\ PlanCompiled /\ specIn = PlanSpec
    /\ \E i \in 2..(Len(compiled.Commands) - 1) :
           /\ compiled.Commands[i].Args =
                  <<"split-window", "-v", "-t", "demo:main", "-c", "/w/demo", "-p", "50">>
           /\ compiled.Commands[i - 1].Args = <<"select-window", "-t", "demo:main">>
           /\ compiled.Commands[i + 1].Args = <<"send-keys", "-t", "demo:logs", "ls", "C-m">>

\* A one-window spec whose window asks for pane n to be focused was compiled.
FocusPaneCompiled ==
    /\ opt.Mode = "apply" /\ PipelineSucceeded
    /\ Len(loaded.Windows) = 1
    /\ loaded.Windows[1].FocusPane \notin {"", "active"}
    /\ TrimSpace(loaded.Session.FocusWindow) = ""

\* C15: for a window W whose focus_pane is a number n the plan holds, after
\* W's panes, layout and window-focus commands, a select-pane command whose
\* target is S:W.n, pane n of the named window.
C15_FocusPaneTargetsNamedWindow ==
    FocusPaneCompiled =>
        compiled.Commands[Len(compiled.Commands)].Args =
            <<"select-pane", "-t",
              PlanTarget(loaded.Windows[1]) \o "." \o loaded.Windows[1].FocusPane>>

\* The pane-plan grammar: one of pane/split per step, a pane first and last,
\* every split with direction h or v (trimmed, case-folded).
StepIsPane(st) == st.Pane # Nil /\ st.Split = Nil
StepIsSplit(st) == st.Pane = Nil /\ st.Split # Nil
PlanGrammar(steps) ==
    /\ \A i \in 1..Len(steps) :
           \/ StepIsPane(steps[i])
           \/ /\ StepIsSplit(steps[i])
              /\ ToLower(TrimSpace(steps[i].Split[1].Direction)) \in {"h", "v"}
    /\ StepIsPane(steps[1])
    /\ StepIsPane(steps[Len(steps)])

\* The spec with the panes of its one window's plan moved to panes[]: what is
\* left to validate when the grammar of the plan is set aside.
PlanPanes(steps) ==
    Flatten([i \in 1..Len(steps) |->
                IF steps[i].Pane = Nil THEN <<>> ELSE <<steps[i].Pane[1]>>])
WithoutPlan(s) ==
    [s EXCEPT !.Windows = <<[s.Windows[1] EXCEPT
                                !.PanePlan = <<>>,
                                !.Panes = @ \o PlanPanes(s.Windows[1].PanePlan)]>>]

\* Validate (inside LoadFile) has run on a spec with one window that has a
\* non-empty pane_plan and is valid in everything but, possibly, the grammar.
PlanValidated ==
    /\ opt.Mode = "apply" /\ pc # "load"
    /\ Len(specIn.Windows) = 1 /\ Len(specIn.Windows[1].PanePlan) > 0
    /\ Validate(WithoutPlan(specIn)) = NoErr
LoadFailed == pc = "failed" /\ HasPrefix(err, "load spec: ")

\* C16: Validate accepts a window's non-empty pane_plan whose pane actions are
\* all valid if and only if every step has exactly one of pane/split, the first
\* and the last step are panes and every split's direction (trimmed,
\* case-folded) is h or v; in every other case it returns an error.
C16_PanePlanGrammar ==
    PlanValidated => (~LoadFailed <=> PlanGrammar(specIn.Windows[1].PanePlan))

\* A plan with a split of direction " H" between two panes was accepted.
C16_Witness ==
    /\ PlanValidated /\ ~LoadFailed
    /\ specIn.Windows[1].PanePlan =
           <<PaneStep(ZeroPane), SplitStep(" H", "30%"), PaneStep(ZeroPane)>>

\* LoadFile's Validate succeeded: loaded is the spec as Validate left it.
LoadSucceeded == opt.Mode = "apply" /\ pc # "load" /\ ~LoadFailed

\* What the shorthand makes of a pane: before is the pane as written, after
\* the pane as Validate left it.
ShorthandApplied(before, after) ==
    /\ (before.Command # "" /\ Len(before.Actions) = 0)
           => after.Actions = <<ShellAct(TrimSpace(before.Command))>>
    /\ Len(before.Actions) > 0
           => after.Actions = [a \in 1..Len(before.Actions) |->
                                  NormalizeAction(before.Actions[a])]
    /\ (before.Command = "" /\ Len(before.Actions) = 0) => after.Actions = <<>>

CompileRan ==
    /\ opt.Mode = "apply"
    /\ \/ PipelineSucceeded
       \/ pc = "failed" /\ HasPrefix(err, "compile spec: ")
Unlimited == Compile([policy EXCEPT !.MaxCommandLen = 0], context, tpl)
Emitted == Unlimited.compiled.Commands
EffectiveMaxLen ==
    IF policy.MaxCommandLen <= 0 THEN DefaultMaxCommandLen ELSE policy.MaxCommandLen
SizeError == pc = "failed" /\ HasPrefix(err, "compile spec: compiled command[")

\* The bytes of the arguments of a command, summed over its argv.
RECURSIVE ByteSum(_)
ByteSum(args) == IF Len(args) = 0 THEN 0 ELSE Len(Head(args)) + ByteSum(Tail(args))

UnsafeWarningLine == "WARNING: unsafe actions present (shell and/or tmux passthrough)"
StartsWithUnsafeWarning(ls) == Len(ls) > 0 /\ HasPrefix(ls[1], "WARNING: unsafe actions present")

\* C19: Compiled.UnsafeUsed is true if and only if at least one command of
\* Compiled.Commands is flagged unsafe (it came from a shell or passthrough
\* action), and the dry-run rendering starts with the WARNING: unsafe actions
\* present line if and only if UnsafeUsed is true.
C19_UnsafeUsedIffUnsafeCommand ==
    PipelineSucceeded =>
        /\ compiled.UnsafeUsed <=> \E i \in 1..Len(compiled.Commands) : compiled.Commands[i].Unsafe
        /\ Len(tpl.Actions) = Len(compiled.Commands)
        /\ \A i \in 1..Len(compiled.Commands) :
               compiled.Commands[i].Unsafe <=> tpl.Actions[i].Kind \in {"shell", "tmux"}
        /\ StartsWithUnsafeWarning(DryRunLines(compiled)) <=> compiled.UnsafeUsed
        /\ lines # <<>> => (StartsWithUnsafeWarning(lines) <=> compiled.UnsafeUsed)

\* A plan with an unsafe command followed by a safe one was compiled and
\* rendered: the warning is the first line.
C19_Witness ==
    /\ PipelineSucceeded /\ compiled.UnsafeUsed
    /\ Len(compiled.Commands) = 2
    /\ compiled.Commands[1].Unsafe /\ ~compiled.Commands[2].Unsafe
    /\ lines # <<>> /\ lines[1] = UnsafeWarningLine

\* The captures the Runner recorded for command i, in order, and the
\* successful ones among them.
CapturesOf(i) ==
    SelectSeq(calls, LAMBDA c : c.cmd = i /\ c.method = "RunOutput")
GoodCapturesOf(i) ==
    SelectSeq(calls, LAMBDA c : c.cmd = i /\ c.method = "RunOutput" /\ ~c.failed)

\* Since when, among the successful captures caps, the latest snapshot has
\* been captured without anything else in between.
SameSince(caps) ==
    LET n == Len(caps)
        k == CHOOSE j \in 1..n :
                 /\ \A m \in j..n : caps[m].snap = caps[n].snap
                 /\ j > 1 => caps[j - 1].snap # caps[n].snap
    IN  caps[k].at

\* The wait_for_prompt handler returned OK for command i.
WaitReturnedOK(i) ==
    /\ i \in 1..Len(handled) /\ handled[i].err = NoErr
    /\ HandlerOf(compiled.Commands[i]) = "wait"

\* C20: the wait_for_prompt handler returns OK only when the latest
\* successfully captured snapshot has stayed identical across all successful
\* captures for at least min_quiet_ms and its last non-blank line matches the
\* prompt regex; never on a snapshot that changed within the last
\* min_quiet_ms, or whose last non-blank line is empty or does not match.
C20_ReadyOnlyWhenQuietAndPrompt ==
    \A i \in 1..Len(handled) :
        WaitReturnedOK(i) =>
            /\ GoodCapturesOf(i) # <<>>
            /\ ~CapturesOf(i)[Len(CapturesOf(i))].failed
            /\ LET caps == GoodCapturesOf(i)
                   last == caps[Len(caps)]
                   w    == WaitLocals(compiled.Commands[i])
               IN  /\ last.at - SameSince(caps) >= w.minQuietMS
                   /\ lastNonEmptyLine(last.snap) # ""
                   /\ MatchString(w.promptRe, lastNonEmptyLine(last.snap))

\* The handler returned OK after two captures of the same prompt, at least
\* min_quiet_ms (100) apart.
C20_Witness ==
    /\ WaitReturnedOK(1) /\ compiled.Commands[1] = WaitCommand
    /\ Len(GoodCapturesOf(1)) = 2
    /\ GoodCapturesOf(1)[1].snap = "banner\n$ " /\ GoodCapturesOf(1)[2].snap = "banner\n$ "
    /\ GoodCapturesOf(1)[2].at - GoodCapturesOf(1)[1].at >= 100

\* The error the handler returns for command i when its deadline passes.
TimeoutErrorOf(i) ==
    LET w == WaitLocals(compiled.Commands[i])
    IN  "wait_for_prompt: timed out after " \o Itoa(w.timeoutMS)
            \o "ms waiting for readiness in " \o w.target

\* Command i is a readiness gate whose arguments the handler accepts, and the
\* handler has returned.
WaitReturned(i) ==
    /\ i \in 1..Len(handled)
    /\ HandlerOf(compiled.Commands[i]) = "wait"
    /\ WaitArgsError(compiled.Commands[i]) = NoErr

\* Every successful capture of command i differed from the one before it.
DiffersAtEveryPoll(i) ==
    LET caps == GoodCapturesOf(i)
    IN  \A k \in 2..Len(caps) : caps[k].snap # caps[k - 1].snap

WaitOutcomes ==
    \A i \in 1..Len(handled) :
        WaitReturned(i) =>
            /\ handled[i].err \in {NoErr, TimeoutErrorOf(i)}
            /\ (/\ DiffersAtEveryPoll(i)
                /\ WaitLocals(compiled.Commands[i]).minQuietMS >= PollEveryMS)
                   => handled[i].err = TimeoutErrorOf(i)

\* C21: whatever the Runner answers (captures that succeed, fail, or differ on
\* every poll) the wait_for_prompt handler terminates and returns OK or the
\* timeout error; when the captured output differs at every poll and
\* min_quiet_ms is at least one poll interval, it returns the timeout error.
C21_WaitTerminates ==
    /\ []WaitOutcomes
    /\ (pc = "wait") ~> (pc # "wait")

\* The gate timed out after three captures that all differed, one of them
\* ending in a prompt.
C21_Witness ==
    /\ WaitReturned(1) /\ compiled.Commands[1] = WaitTightCommand
    /\ Len(GoodCapturesOf(1)) = 3 /\ DiffersAtEveryPoll(1)
    /\ GoodCapturesOf(1)[3].snap = "banner\n$ "
    /\ handled[1].err = TimeoutErrorOf(1)

\* Every capture of command i succeeded and returned the same output, whose
\* last non-blank line matches the gate's prompt pattern.
SteadyPrompt(i) ==
    LET caps == CapturesOf(i)
        w    == WaitLocals(compiled.Commands[i])
    IN  /\ caps # <<>>
        /\ \A k \in 1..Len(caps) : ~caps[k].failed /\ caps[k].snap = caps[1].snap
        /\ lastNonEmptyLine(caps[1].snap) # ""
        /\ MatchString(w.promptRe, lastNonEmptyLine(caps[1].snap))

\* C22 as stated: with a steady prompt and min_quiet_ms plus one poll interval
\* below timeout_ms, the handler returns OK and not the timeout error.
C22_AsStated ==
    \A i \in 1..Len(handled) :
        (/\ WaitReturned(i) /\ SteadyPrompt(i)
         /\ LET w == WaitLocals(compiled.Commands[i])
            IN  w.minQuietMS + PollEveryMS < w.timeoutMS)
            => handled[i].err = NoErr

SteadyPromptOutcome ==
    \A i \in 1..Len(handled) :
        (/\ WaitReturned(i) /\ SteadyPrompt(i)
         /\ LET w == WaitLocals(compiled.Commands[i])
            IN  CapturesOf(i)[1].at + w.minQuietMS + PollEveryMS <= w.timeoutMS)
            => handled[i].err = NoErr

\* C22 (amended): if every capture returns the same output whose last
\* non-blank line matches the prompt regex, and the time the first capture
\* takes plus min_quiet_ms plus one poll interval is at most timeout_ms, the
\* wait_for_prompt handler eventually returns, with OK and not a timeout error.
C22_SteadyPromptReturnsOK ==
    /\ []SteadyPromptOutcome
    /\ (pc = "wait") ~> (pc = "loop" \/ pc = "done")

\* The tight gate (timeout 221, quiet 120) returned OK on its third capture of
\* the same prompt, the first capture having returned at once.
C22_Witness ==
    /\ WaitReturned(1) /\ compiled.Commands[1] = WaitTightCommand
    /\ SteadyPrompt(1) /\ Len(CapturesOf(1)) = 3 /\ CapturesOf(1)[1].at = 0
    /\ handled[1].err = NoErr

\* C23: counted in clock ticks from its start, one wait_for_prompt gate never
\* blocks longer than timeout_ms: whenever the handler returns (OK or error,
\* the settle_ms sleep included) the clock is at most timeout_ms.
C23_GateBlocksAtMostTimeout ==
    [][(pc = "wait" /\ pc' # "wait") => now' <= wait.timeoutMS]_vars

\* The k-th successful capture of command i observed readiness: its snapshot
\* had been the only one captured for min_quiet_ms, and its last non-blank
\* line matches the prompt pattern.
ObservedReady(i, k) ==
    LET caps == SubSeq(GoodCapturesOf(i), 1, k)
        w    == WaitLocals(compiled.Commands[i])
        line == lastNonEmptyLine(caps[k].snap)
    IN  /\ caps[k].at - SameSince(caps) >= w.minQuietMS
        /\ line # "" /\ MatchString(w.promptRe, line)

\* The last call the Runner recorded is a capture that failed.
LastCaptureFailed(cs) ==
    cs # <<>> /\ cs[Len(cs)].method = "RunOutput" /\ cs[Len(cs)].failed

FailedCaptureSwallowed ==
    \A i \in 1..Len(compiled.Commands) :
        (HandlerOf(compiled.Commands[i]) = "wait" /\ WaitArgsError(compiled.Commands[i]) = NoErr) =>
            /\ (i \in 1..Len(handled) => handled[i].err \notin RunErrors)
            /\ (\E k \in 1..Len(GoodCapturesOf(i)) : ObservedReady(i, k))
                   => (i \in 1..Len(handled) /\ handled[i].err = NoErr)
            /\ (i \in 1..Len(handled) /\ handled[i].err # NoErr /\ LastCaptureFailed(CapturesOf(i)))
                   => (/\ handled[i].err = TimeoutErrorOf(i)
                       /\ now >= WaitLocals(compiled.Commands[i]).timeoutMS)

\* C24: a failing capture never makes the wait_for_prompt handler return an
\* error by itself: the step of a failed capture leaves the handler polling,
\* readiness observed on a later successful capture still yields OK, and
\* after failures the only error is the timeout error, once the deadline has
\* passed.
C24_CaptureFailuresAreSwallowed ==
    /\ []FailedCaptureSwallowed
    /\ [][(pc = "wait" /\ Len(calls') > Len(calls) /\ LastCaptureFailed(calls'))
             => (pc' = "wait" /\ handled' = handled)]_vars

\* The tight gate returned OK on its third capture, the second having failed
\* between two captures of the same prompt.
C24_Witness ==
    /\ WaitReturned(1) /\ compiled.Commands[1] = WaitTightCommand
    /\ Len(CapturesOf(1)) = 3 /\ CapturesOf(1)[2].failed
    /\ Len(GoodCapturesOf(1)) = 2 /\ ObservedReady(1, 2)
    /\ handled[1].err = NoErr

\* Command i is an ssh_manager_connect sentinel the handler accepts, and the
\* handler has returned.
SshReturned(i) ==
    /\ i \in 1..Len(handled)
    /\ HandlerOf(compiled.Commands[i]) = "ssh"
    /\ SshArgsError(compiled.Commands[i]) = NoErr

\* The calls the Runner recorded for command i.
CallsOf(i) == SelectSeq(calls, LAMBDA c : c.cmd = i)

\* The words of the line the sentinel args stand for: mode, host, user, port.
ConnectWords(mode, host, user, port) ==
    IF mode = "askpass"
    THEN IF user = "" THEN <<"tmux-ssh-manager", "__connect", "--host", host>>
         ELSE <<"tmux-ssh-manager", "__connect", "--host", host, "--user", user>>
    ELSE LET dest == IF user = "" THEN host ELSE user \o "@" \o host
         IN  IF port > 0 THEN <<"ssh", "-p", Itoa(port), dest>> ELSE <<"ssh", dest>>

SentinelPort(s) == IF Atoi(TrimSpace(s))[1] THEN Atoi(TrimSpace(s))[2] ELSE 0
SentinelMode(s) ==
    IF TrimSpace(ToLower(s)) = "" THEN "askpass" ELSE TrimSpace(ToLower(s))

\* C25: for a valid ssh_manager_connect sentinel the handler issues exactly
\* one Runner call, Run([send-keys, -t, target, line, C-m]); for login_mode
\* askpass the line is the connector invocation with --host and, only when a
\* user is given, --user (no port, no password); for manual or key it is ssh,
\* -p <port> only when port > 0, then user@host or host.
C25_SshConnectTypesOneLine ==
    \A i \in 1..Len(handled) :
        SshReturned(i) =>
            LET a == compiled.Commands[i].Args
            IN  /\ Len(CallsOf(i)) = 1
                /\ CallsOf(i)[1].method = "Run"
                /\ CallsOf(i)[1].args =
                       <<"send-keys", "-t", TrimSpace(a[2]),
                         shellJoin(ConnectWords(SentinelMode(a[6]), TrimSpace(a[3]),
                                                TrimSpace(a[4]), SentinelPort(a[5]))),
                         "C-m">>

\* An askpass connect with a user and a port typed the connector line without
\* the port, and a key connect without a user and with port 0 typed plain ssh.
C25_Witness ==
    /\ SshReturned(1)
    /\ compiled.Commands[1] \in
           {SshSentinelCommand("db 1", " bob ", "2222", ""),
            SshSentinelCommand("db 1", "", "0", "KEY")}
    /\ CallsOf(1)[1].args[4] \in
           {"tmux-ssh-manager __connect --host 'db 1' --user bob", "ssh 'db 1'"}

\* TMUX has the form <sock>,<pid>,<idx> with a socket path, and the socket.
InsideTmuxClient ==
    Len(Split(Getenv("TMUX"), ",")) = 3 /\ TrimSpace(Split(Getenv("TMUX"), ",")[1]) # ""
ClientSocket == TrimSpace(Split(Getenv("TMUX"), ",")[1])

\* The argv selects a server itself: tmux's -S or -L before the subcommand.
SelectsServer(args) == args # <<>> /\ args[1] \in {"-S", "-L"}

\* C26: when TMUX is <sock>,<pid>,<idx>, the reference Runner prepends
\* -S <sock> to every argv the executor hands it that does not itself select
\* a server (new-window, split-window, select-pane, send-keys and the
\* readiness gate's capture-pane -p -t T -S -N), and runs an argv that already
\* carries a socket/server override unchanged.
C26_RunnerForcesClientSocket ==
    InsideTmuxClient =>
        \A k \in 1..Len(calls) :
            calls[k].exec = IF SelectsServer(calls[k].args) THEN calls[k].args
                            ELSE <<"-S", ClientSocket>> \o calls[k].args

\* The sources of a variable in the order of the claim: the built-in from the
\* context, the spec's env, the process environment, the default text. A
\* source defines the variable when it gives it a non-empty value.
SourcesOf(key, def) ==
    << CASE key = "PROJECT_NAME" -> context.ProjectName
         [] key = "PROJECT_PATH" -> context.ProjectPath
         [] key = "SESSION_NAME" -> context.SessionName
         [] key = "TMUX_SOCK"    -> context.TmuxSocket
         [] OTHER                -> "",
       IF key \in DOMAIN specIn.Env THEN specIn.Env[key] ELSE "",
       IF key \in DOMAIN environ THEN environ[key] ELSE "",
       def >>
FirstDefined(srcs) ==
    IF \A k \in 1..Len(srcs) : srcs[k] = "" THEN ""
    ELSE srcs[CHOOSE k \in 1..Len(srcs) : srcs[k] # "" /\ \A j \in 1..(k - 1) : srcs[j] = ""]
Resolved(key, def) == FirstDefined(SourcesOf(key, def))

\* What the references of SubstKeysInput must have become.
ResolvedKeys ==
    <<"n=" \o Resolved("PROJECT_NAME", ""), "p=" \o Resolved("PROJECT_PATH", "nowhere"),
      "s=" \o Resolved("SESSION_NAME", ""), "t=" \o Resolved("TMUX_SOCK", ""),
      "u=" \o Resolved("TMUX_SOCK", "dflt"), "f=" \o Resolved("FOO", ""),
      "g=" \o Resolved("FOO", "dflt"), "h=" \o Resolved("NOPE", ""),
      "i=" \o Resolved("NOPE", ""), "e=" \o Resolved("EDITOR", "ed")>>

\* The pipeline compiled the spec of the references.
SubstCompiled ==
    /\ PipelineSucceeded /\ pc = "returned"
    /\ \E env \in SubstSpecEnvs : specIn = SubstSpec(env)

\* C27: subst resolves each ${VAR} / ${VAR:-default} by the first source that
\* defines VAR, in the order built-in, spec env, process env, default text; an
\* entry of the spec env or the process env with a built-in's name never
\* overrides the built-in, and a variable found nowhere with no default
\* becomes the empty string.
C27_SubstLookupOrder ==
    SubstCompiled =>
        /\ \E k \in 1..Len(compiled.Commands) :
              /\ compiled.Commands[k].Args[1] = "send-keys"
              /\ SubSeq(compiled.Commands[k].Args, 4, Len(compiled.Commands[k].Args))
                     = ResolvedKeys
        /\ \E k \in 1..Len(compiled.Commands) :
              /\ compiled.Commands[k].Args[1] = "send-keys"
              /\ compiled.Commands[k].Args[4] = "n=" \o context.ProjectName
              /\ compiled.Commands[k].Args[5] = "p=" \o context.ProjectPath
              /\ compiled.Commands[k].Args[6] = "s=" \o context.SessionName
              /\ compiled.Commands[k].Args[11] = "h="
              /\ compiled.Commands[k].Args[12] = "i="

\* The references were compiled under a spec env and a process environment
\* that both define FOO and each carry an entry named like a built-in.
C27_Witness ==
    /\ SubstCompiled
    /\ specIn.Env = ("FOO" :> "spec") @@ ("PROJECT_NAME" :> "evil")
    /\ "SESSION_NAME" \in DOMAIN environ
    /\ \E k \in 1..Len(compiled.Commands) :
          /\ compiled.Commands[k].Args[1] = "send-keys"
          /\ compiled.Commands[k].Args[9] = "f=spec"
          /\ compiled.Commands[k].Args[4] # "n=evil"
          /\ compiled.Commands[k].Args[6] # "s=evil"

\* main was started with --spec or --project.
AppliesFromCommandLine == flags.main /\ flags.KeyBind = "" /\ flags.args # <<>>
                              /\ flags.args[1] \in {"--spec", "--project"}

ExecsOf(names) == SelectSeq(execs, LAMBDA a : a[1] \in names)

\* C28: run with --dry-run, applying a spec from the command line (--spec or
\* --project) changes nothing in tmux: on every path it issues no
\* new-session, no kill-window, no switch-client, no kill-session and no
\* command of the plan.
C28_DryRunChangesNothing ==
    (AppliesFromCommandLine /\ flags.DryRun) =>
        /\ ExecsOf({"new-session", "kill-window", "switch-client", "kill-session"}) = <<>>
        /\ calls = <<>>

\* Started outside tmux with --spec or --project, not bootstrapped, bootstrap
\* enabled neither by flag nor by environment.
RefusedOutsideTmux ==
    /\ AppliesFromCommandLine
    /\ TrimSpace(Getenv("TMUX")) = ""
    /\ TrimSpace(Getenv("TMUX_SESSION_MANAGER_BOOTSTRAPPED")) = ""
    /\ ~flags.Bootstrap
    /\ ToLower(TrimSpace(Getenv("TMUX_SESSION_MANAGER_BOOTSTRAP")))
           \notin {"1", "true", "yes", "y", "on"}

\* C29: started outside tmux (TMUX unset) with --spec or --project, not
\* already bootstrapped, and with bootstrap enabled neither by flag nor by
\* environment, the program exits with failure before running any tmux
\* command: it creates no tmux server, session or window.
C29_RefusesOutsideTmux ==
    RefusedOutsideTmux =>
        /\ pc \in {"main", "exit1"}
        /\ execs = <<>> /\ calls = <<>>
        /\ pc = "main" => ENABLED MainBootstrap

\* The program has exited with failure on --project with
\* TMUX_SESSION_MANAGER_BOOTSTRAP=off and nothing run.
C29_Witness ==
    /\ RefusedOutsideTmux /\ pc = "exit1" /\ execs = <<>>
    /\ flags.ProjectName = "demo" /\ Getenv("TMUX_SESSION_MANAGER_BOOTSTRAP") = "off"

\* Compile was handed an IR directly and returned a plan.
CompileAloneSucceeded ==
    opt.Mode = "compile" /\ pc \in {"entry", "loop", "wait", "done"}

\* C30: whatever IR action stream Compile is handed, when Policy.AllowShell is
\* false no command of the plan it returns has an argv that runs a shell
\* snippet (bash -lc <cmd>), new_window and split_window actions that carry a
\* Command included.
C30_CompileEnforcesShellGate ==
    (CompileAloneSucceeded /\ ~policy.AllowShell)
        => \A i \in 1..Len(compiled.Commands) :
               ~RunsShellSnippet(compiled.Commands[i].Args)

\* The same with actions that carry a Command left aside: only the shell
\* action is gated.
C30_ShellActionGated ==
    (CompileAloneSucceeded /\ ~policy.AllowShell
        /\ \A k \in 1..Len(tpl.Actions) : TrimSpace(tpl.Actions[k].Command) = "")
        => \A i \in 1..Len(compiled.Commands) :
               ~RunsShellSnippet(compiled.Commands[i].Args)

\* With AllowShell false a new_window action with a Command compiled to a
\* command that is not flagged unsafe and starts bash -lc.
C30_UngatedSnippet ==
    /\ CompileAloneSucceeded /\ ~policy.AllowShell /\ ~compiled.UnsafeUsed
    /\ \E i \in 1..Len(compiled.Commands) :
           /\ compiled.Commands[i].Args[1] = "new-window"
           /\ ~compiled.Commands[i].Unsafe
           /\ RunsShellSnippet(compiled.Commands[i].Args)

\* The pane_plans of the spec LoadFile accepted, as written by the author.
AcceptedPlans ==
    IF LoadSucceeded
    THEN {specIn.Windows[i].PanePlan : i \in 1..Len(specIn.Windows)} \ {<<>>}
    ELSE {}
PaneStepsOf(steps) == {i \in 1..Len(steps) : StepIsPane(steps[i])}
SplitStepsOf(steps) == {i \in 1..Len(steps) : StepIsSplit(steps[i])}

\* C31 as stated: in every accepted pane_plan each split is immediately
\* followed by a pane, no two panes are adjacent and there is exactly one more
\* pane step than split steps.
C31_AsStated ==
    \A steps \in AcceptedPlans :
        /\ \A i \in 1..Len(steps) :
               /\ StepIsSplit(steps[i]) => (i < Len(steps) /\ StepIsPane(steps[i + 1]))
               /\ (StepIsPane(steps[i]) /\ i < Len(steps)) => ~StepIsPane(steps[i + 1])
        /\ Cardinality(PaneStepsOf(steps)) = Cardinality(SplitStepsOf(steps)) + 1

\* C31: in every pane_plan that Validate accepts every step is a pane or a
\* split, the first and the last step are panes, so every split step is
\* followed, at once or after further splits, by a pane step and no split comes
\* before the first pane; pane steps may be adjacent and so may split steps.
C31_SplitsLieBetweenPanes ==
    \A steps \in AcceptedPlans :
        /\ PaneStepsOf(steps) \cup SplitStepsOf(steps) = 1..Len(steps)
        /\ 1 \in PaneStepsOf(steps)
        /\ \A i \in SplitStepsOf(steps) :
               /\ \E j \in PaneStepsOf(steps) : j > i
               /\ \E j \in PaneStepsOf(steps) : j < i
        /\ Cardinality(PaneStepsOf(steps)) >= 1

\* A plan of a pane, a split and a pane was accepted and applied.
C31_Witness ==
    \E steps \in AcceptedPlans :
        /\ Len(steps) = 3 /\ SplitStepsOf(steps) = {2} /\ PaneStepsOf(steps) = {1, 3}
        /\ pc = "returned" /\ err = NoErr

\* ApplySpecFile compiled the windows of a spec that holds no passthrough action.
WindowsPlanCompiled ==
    /\ opt.Mode = "apply" /\ PipelineSucceeded
    /\ Len(loaded.Windows) > 0
    /\ \A i \in 1..Len(AllActions(loaded)) : AllActions(loaded)[i].Type # "tmux"

\* The positions of the plan that hold exactly this argv.
CommandsWith(args) == {k \in 1..Len(compiled.Commands) : compiled.Commands[k].Args = args}
CommandsNamed(sub) ==
    {k \in 1..Len(compiled.Commands) : compiled.Commands[k].Args[1] = sub}

\* The panes of a window that ask for focus, legacy panes or panes of the plan.
FocusedPanes(w) ==
    IF Len(w.PanePlan) > 0
    THEN {k \in 1..Len(w.PanePlan) : w.PanePlan[k].Pane # Nil /\ w.PanePlan[k].Pane[1].Focus}
    ELSE {k \in 1..Len(w.Panes) : w.Panes[k].Focus}
NumericFocusPane(w) == TrimSpace(ToLower(w.FocusPane)) \notin {"", "active"}
\* The target compileAction gives the select_pane action of a focus_pane: the
\* session and the pane index, the window left out.
FocusPaneTargetOf(w) == PlanSession \o ":." \o TrimSpace(ToLower(w.FocusPane))
FocusWindowIs(w) ==
    /\ TrimSpace(ToLower(loaded.Session.FocusWindow)) \notin {"", "active"}
    /\ TrimSpace(loaded.Session.FocusWindow) = TrimSpace(w.Name)
DistinctWindowNames ==
    \A i, j \in 1..Len(loaded.Windows) :
        TrimSpace(loaded.Windows[i].Name) = TrimSpace(loaded.Windows[j].Name) => i = j

\* C32: in a plan built from windows without passthrough actions every pane
\* with focus=true adds one select-window S:W (next to the one that follows
\* new-window, the one of the window's focus and the one of
\* session.focus_window) and no select-pane; the plan holds exactly one
\* select-pane command per window whose focus_pane is a number n, with n as
\* its pane index.
C32_PaneFocusSelectsWindow ==
    (WindowsPlanCompiled /\ DistinctWindowNames)
        => /\ \A i \in 1..Len(loaded.Windows) :
                  Let(loaded.Windows[i], LAMBDA w :
                      /\ Cardinality(CommandsWith(<<"select-window", "-t", PlanTarget(w)>>))
                             = 1 + Cardinality(FocusedPanes(w))
                                 + (IF w.Focus THEN 1 ELSE 0)
                                 + (IF FocusWindowIs(w) THEN 1 ELSE 0)
                      /\ NumericFocusPane(w)
                             => CommandsWith(<<"select-pane", "-t", FocusPaneTargetOf(w)>>)
                                    # {})
           /\ Cardinality(CommandsNamed("select-pane"))
                  = Cardinality({i \in 1..Len(loaded.Windows) :
                                    NumericFocusPane(loaded.Windows[i])})

\* A window with two focused panes and no focus_pane compiled to three
\* select-window commands and no select-pane.
C32_Witness ==
    /\ WindowsPlanCompiled /\ Len(loaded.Windows) = 1
    /\ Cardinality(FocusedPanes(loaded.Windows[1])) = 2
    /\ ~NumericFocusPane(loaded.Windows[1])
    /\ Cardinality(CommandsNamed("select-window")) = 3
    /\ CommandsNamed("select-pane") = {}

\* ApplySpecFile compiled a spec; FromSpec chose the windows or the actions.
OnWindowsPath == opt.Mode = "apply" /\ PipelineSucceeded /\ Len(loaded.Windows) > 0
OnActionsPath == opt.Mode = "apply" /\ PipelineSucceeded /\ Len(loaded.Windows) = 0
FocusWindowSet == TrimSpace(ToLower(loaded.Session.FocusWindow)) \notin {"", "active"}
FocusWindowArgv ==
    <<"select-window", "-t", PlanSession \o ":" \o TrimSpace(loaded.Session.FocusWindow)>>
LastCommand == compiled.Commands[Len(compiled.Commands)]

\* Some argument of some command of the plan contains the text.
PlanMentions(text) ==
    \E k \in 1..Len(compiled.Commands) :
        \E j \in 1..Len(compiled.Commands[k].Args) :
            Contains(compiled.Commands[k].Args[j], text)

\* C33: a plan is built from the windows or from the spec-level actions, never
\* from both. With windows present FromSpec lowers the windows, the spec-level
\* actions leave no trace in the IR (the IR is the one of the same spec without
\* them) and a set session.focus_window closes the plan with select-window
\* S:<value>. Without windows the spec-level actions are lowered one by one
\* after the prologue, and unless one of them is lowered to a shell or
\* passthrough action no window is created and none is selected, whatever
\* session.focus_window says.
C33_OneRepresentation ==
    /\ OnWindowsPath
           => /\ tpl = FromSpec(context, [loaded EXCEPT !.Actions = <<>>], opt.AllowShell,
                                opt.AllowTmuxPassthrough, opt.IncludeEnsureSession).tpl
              /\ compiled.Commands[PlanPrologueLen + 1].Args[1] = "new-window"
              /\ FocusWindowSet => LastCommand.Args = FocusWindowArgv
    /\ OnActionsPath
           => /\ Len(tpl.Actions) = PlanPrologueLen + Len(loaded.Actions)
              /\ (\A i \in 1..Len(tpl.Actions) :
                      tpl.Actions[i].Kind \notin {"shell", "tmux"})
                     => /\ CommandsNamed("new-window") = {}
                        /\ CommandsNamed("select-window") = {}

\* A spec with two windows, two spec-level actions and focus_window logs was
\* compiled: the plan ends with select-window demo:logs and nothing of the
\* spec-level actions is in it.
C33_Witness ==
    /\ OnWindowsPath /\ Len(loaded.Windows) = 2 /\ Len(loaded.Actions) = 2
    /\ loaded.Actions[1].Run[1].Args = <<"spec-level">>
    /\ FocusWindowSet /\ LastCommand.Args = <<"select-window", "-t", "demo:logs">>
    /\ ~PlanMentions("spec-level") /\ ~PlanMentions("clear")
    /\ PlanMentions("htop")

\* The arguments of a sentinel command that its handler is to reject.
WaitArgsRejected(c) ==
    /\ Len(c.Args) > 0 /\ c.Args[1] = WaitSentinel
    /\ \/ Len(c.Args) < 6
       \/ TrimSpace(c.Args[2]) = ""
       \/ Len(c.Args) >= 7 /\ TrimSpace(c.Args[7]) # ""
              /\ ~RegexCompiles(TrimSpace(c.Args[7]))
SshArgsRejected(c) ==
    /\ Len(c.Args) > 0 /\ c.Args[1] = SshSentinel
    /\ \/ Len(c.Args) < 7
       \/ TrimSpace(c.Args[2]) = ""
       \/ TrimSpace(c.Args[3]) = ""
       \/ TrimSpace(ToLower(c.Args[6])) \notin {"", "askpass", "manual", "key"}
ArgsRejected(c) == WaitArgsRejected(c) \/ SshArgsRejected(c)

\* Execute has gone past command i: handled it, or is polling for it.
Reached(i) == i <= Len(handled) \/ (pc = "wait" /\ i = Len(handled) + 1)

\* C34: a wait_for_prompt sentinel with too few arguments, an empty target or
\* a prompt_regex that does not compile, and an ssh_manager_connect sentinel
\* with too few arguments, an empty target, an empty host or a login_mode
\* outside askpass/manual/key, makes its handler return an error of its own
\* name without any Runner call for the command, and Execute stops there: the
\* command is the last one handled and no later command reaches the Runner.
C34_RejectedSentinelMakesNoCall ==
    \A i \in 1..Len(compiled.Commands) :
        (ExecuteEntered /\ Reached(i) /\ ArgsRejected(compiled.Commands[i]))
            => /\ i = Len(handled) /\ pc # "wait"
               /\ HasPrefix(handled[i].err,
                            IF WaitArgsRejected(compiled.Commands[i])
                            THEN "wait_for_prompt: " ELSE "ssh_manager_connect: ")
               /\ pc = "done" => err = handled[i].err
               /\ \A j \in 1..Len(calls) : calls[j].cmd < i

\* Execute ran a plain command, then met an ssh sentinel with the login mode
\* password and returned its error; the third command never ran.
C34_Witness ==
    /\ pc = "done" /\ Len(compiled.Commands) = 3 /\ Len(handled) = 2
    /\ SshArgsRejected(compiled.Commands[2])
    /\ TrimSpace(compiled.Commands[2].Args[6]) = "password"
    /\ err = "ssh_manager_connect: unsupported login_mode"
    /\ Len(calls) = 1 /\ calls[1].cmd = 1

\* Compile was handed an IR whose last action is a passthrough action with a
\* leading argument that is empty or blank once substituted, under a policy
\* that allows passthrough, and has returned or crashed.
BlankPassthroughCompiled ==
    /\ opt.Mode = "compile" /\ pc # "compile" /\ policy.AllowTmuxPassthrough
    /\ Len(tpl.Actions) > 0
    /\ Let(tpl.Actions[Len(tpl.Actions)], LAMBDA a :
           /\ a.Kind = "tmux" /\ Len(a.TmuxArgs) > 0
           /\ TrimSpace(subst(context, a.TmuxArgs[1])) = "")

\* C35: for a passthrough IR action whose leading argument is empty or only
\* whitespace after substitution Compile does not crash: it returns the
\* 'empty subcommand' error and emits no command.
C35_BlankSubcommandIsAnError ==
    BlankPassthroughCompiled
        => /\ pc = "failed"
           /\ Contains(err, "tmux: empty subcommand")
           /\ compiled = NoCompiled

\* Compile crashed on such an action: index out of range.
C35_BlankSubcommandPanics ==
    /\ BlankPassthroughCompiled /\ pc = "panic"
    /\ HasPrefix(err, "panic: runtime error: index out of range")

\* The tmux commands that change the server or the client: sessions made,
\* killed, renamed, the client switched, a compiled plan executed, the
\* commands of a built-in template.
TmuxMutations ==
    {"new-session", "kill-session", "rename-session", "switch-client", "execute-plan",
     "rename-window", "split-window", "new-window", "send-keys"}
Mutated(sub) ==
    \E i \in 1..Len(tui.last.ran) : tui.last.ran[i].ok /\ tui.last.ran[i].argv[1] = sub
RanMutation == \E sub \in TmuxMutations : Mutated(sub)

\* C36: with UIOptions.DryRun set, no key makes the TUI run a tmux command
\* that changes the server or the client.
C36_DryRunNeverMutates == (pc \in {"ui", "exit0"} /\ tui.m.opts.DryRun) => ~RanMutation

\* The kill-session commands the latest key ran, whatever their outcome.
KillsRan ==
    {i \in 1..Len(tui.last.ran) : tui.last.ran[i].argv[1] = "kill-session"}

\* C37: the TUI runs kill-session only on y or Y while the kill confirmation
\* is showing, and for the session that was selected when the confirmation
\* opened; the confirmation is opened only by d in sessions mode with a
\* session selected; n, N, Esc and q close it without running anything.
C37_KillOnlyOnConfirmedYes ==
    /\ \A i \in KillsRan :
           /\ tui.last.key \in {"y", "Y"}
           /\ tui.last.confirming
           /\ tui.last.armed # ""
           /\ tui.last.ran[i].argv = <<"kill-session", "-t", tui.last.armed>>
    /\ tui.m.confirmKill =>
           /\ tui.armed.key = "d"
           /\ tui.armed.mode = "sessions"
           /\ tui.armed.name # ""
           /\ currentSessionName(tui.m) = tui.armed.name
    /\ (tui.last.confirming /\ tui.last.key \in {"n", "N", "esc", "q"}) =>
           /\ tui.last.ran = <<>>
           /\ ~tui.m.confirmKill
           /\ tui.last.status = "cancelled"

\* d on the selected session, then y: that session is gone from the server.
C37_Witness ==
    /\ tui.last.key = "y"
    /\ tui.last.confirming
    /\ tui.last.ran = <<Ran(<<"kill-session", "-t", "web">>, TRUE)>>
    /\ tui.last.armed = "web"
    /\ tui.server = {"api"}

\* C38: the selected index is 0 when the current filtered list is empty and
\* otherwise lies in 0 .. length of the list - 1.
C38_SelectedWithinList ==
    pc \in {"ui", "exit0"} =>
        /\ tui.m.selected >= 0
        /\ currentListLen(tui.m) = 0 => tui.m.selected = 0
        /\ currentListLen(tui.m) > 0 => tui.m.selected <= currentListLen(tui.m) - 1

\* The selected index is -1 right after the last listed session was killed.
C38_SelectedNegativeAfterKill ==
    /\ tui.m.selected = -1
    /\ currentListLen(tui.m) = 0
    /\ tui.last.key \in {"y", "Y"}
    /\ \E i \in KillsRan : tui.last.ran[i].ok

\* The run action of a spec that holds nothing else, its words, and the
\* command lines the plan sends for it.
SoleRunAction ==
    /\ PipelineSucceeded
    /\ Len(loaded.Windows) = 0
    /\ Len(loaded.Actions) = 1
    /\ loaded.Actions[1].Type = "run"
RunArgv == <<loaded.Actions[1].Run[1].Program>> \o loaded.Actions[1].Run[1].Args
SentLines == {compiled.Commands[k].Args[4] : k \in CommandsNamed("send-keys")}

\* The three quoting helpers give the same text for the word.
QuotedAlike(word) ==
    /\ shellQuote(word) = shellQuoteSimple(word)
    /\ shellQuote(word) = mainShellQuote(word)

\* C39: templates.shellQuote gives what the manager's and the CLI's quoting
\* helpers give, and the line sent for a run action splits back into its words.
C39_QuotesAlikeAndSplitsBack ==
    SoleRunAction =>
        /\ SentLines = {shellJoin(RunArgv)}
        /\ \A i \in 1..Len(RunArgv) : QuotedAlike(RunArgv[i])
        /\ ShellWords(shellJoin(RunArgv)) = [ok |-> TRUE, words |-> RunArgv]

\* The line sent for a word with a single quote leaves a quote open, where
\* the manager's line for the same words splits back into them.
C39_SentLineLeavesQuoteOpen ==
    /\ SoleRunAction
    /\ \E line \in SentLines :
           /\ line = shellJoin(RunArgv)
           /\ ~ShellWords(line).ok
    /\ ShellWords(managerShellJoin(RunArgv)) = [ok |-> TRUE, words |-> RunArgv]

====
